---- MODULE Spec2Model ----
(***************************************************************************)
(* AtomSim: the autonomous chemistry engine and the two simulation         *)
(* components that drive it.                                               *)
(*                                                                         *)
(* Numbers.  The program computes with IEEE doubles; the model uses exact  *)
(* integers in fixed units:                                                *)
(*   energies            1e-7 (1.36 is 13600000, written Hundredths(136))  *)
(*   electronegativities hundredths (2.20 is 220)                          *)
(*   ionization energies tenths     (13.6 is 136)                          *)
(*   radii and distances hundredths (0.37 is 37)                           *)
(* Every activation energy is a whole number of energy units.  A product   *)
(* with a decay factor is rounded to the nearest energy unit.  Where the   *)
(* double the program computes lies beside the decimal value of a formula  *)
(* and a comparison can tell, a table names the element pairs concerned.   *)
(*                                                                         *)
(* Names.  simulation.component.ts and molecular-recipes.interface.ts both *)
(* declare a SimulationComponent with the same member names.  A definition *)
(* ending in S models simulation.component.ts, one ending in M models the  *)
(* mode-based component of molecular-recipes.interface.ts.                 *)
(***************************************************************************)
EXTENDS Integers, Sequences, FiniteSets, TLC

\* ------------------------------------------------------------------------
\* Generic helpers
\* ------------------------------------------------------------------------
Range(s) == {s[i] : i \in DOMAIN s}

Abs(x) == IF x < 0 THEN -x ELSE x

Max2(x, y) == IF x >= y THEN x ELSE y

Min2(x, y) == IF x <= y THEN x ELSE y

\* the energy of n hundredths
Hundredths(n) == n * 100000

\* Array.prototype.sort with a comparator is stable: an element comes after
\* every element that is smaller and after every earlier element it ties with
SortStable(s, Less(_, _)) ==
  LET rank(i) == 1 + Cardinality({j \in DOMAIN s :
                      Less(s[j], s[i]) \/ (~Less(s[i], s[j]) /\ j < i)})
  IN [k \in 1..Len(s) |-> s[CHOOSE i \in DOMAIN s : rank(i) = k]]

RECURSIVE Digits(_)
\* Number.prototype.toString: the decimal digits, most significant first
Digits(n) == IF n < 10 THEN <<n>> ELSE Digits(n \div 10) \o <<n % 10>>

RECURSIVE LexLess(_, _)
\* comparison of two digit strings by code unit, as the default
\* Array.prototype.sort compares the strings of its elements
LexLess(s, t) ==
  IF t = <<>> THEN FALSE
  ELSE IF s = <<>> THEN TRUE
  ELSE IF Head(s) # Head(t) THEN Head(s) < Head(t)
  ELSE LexLess(Tail(s), Tail(t))

RECURSIVE Join(_, _)
\* Array.prototype.join on a sequence of strings
Join(s, sep) ==
  IF s = <<>> THEN ""
  ELSE IF Len(s) = 1 THEN s[1]
  ELSE s[1] \o sep \o Join(Tail(s), sep)

\* ------------------------------------------------------------------------
\* autonomous-chemistry.engine.ts
\* ------------------------------------------------------------------------
Element(sym, nm, ve, mb, en, rad, ie) ==
  [symbol |-> sym, name |-> nm, valenceElectrons |-> ve, maxBonds |-> mb,
   electronegativity |-> en, atomicRadius |-> rad, ionizationEnergy |-> ie]

\* indexed by atomic number
CHEMICAL_ELEMENTS ==
  << Element("H",  "Hydrogen",   1, 1, 220,  37, 136),
     Element("He", "Helium",     2, 0,   0,  32, 246),
     Element("Li", "Lithium",    1, 1,  98, 152,  54),
     Element("Be", "Beryllium",  2, 2, 157, 112,  93),
     Element("B",  "Boron",      3, 3, 204,  88,  83),
     Element("C",  "Carbon",     4, 4, 255,  77, 113),
     Element("N",  "Nitrogen",   5, 3, 304,  75, 145),
     Element("O",  "Oxygen",     6, 2, 344,  73, 136),
     Element("F",  "Fluorine",   7, 1, 398,  71, 174),
     Element("Ne", "Neon",       8, 0,   0,  69, 216),
     Element("Na", "Sodium",     1, 1,  93, 186,  51),
     Element("Mg", "Magnesium",  2, 2, 131, 160,  76),
     Element("Al", "Aluminum",   3, 3, 161, 143,  60),
     Element("Si", "Silicon",    4, 4, 190, 118,  82),
     Element("P",  "Phosphorus", 5, 5, 219, 110, 105),
     Element("S",  "Sulfur",     6, 6, 258, 104, 104),
     Element("Cl", "Chlorine",   7, 7, 316,  99, 130),
     Element("Ar", "Argon",      8, 0,   0,  97, 158) >>

\* CHEMICAL_ELEMENTS.get(protons) is defined
HasElement(protons) == protons \in DOMAIN CHEMICAL_ELEMENTS

\* String.prototype.toLowerCase on the element names
toLowerCase(nm) ==
  CASE nm = "Hydrogen" -> "hydrogen"   [] nm = "Helium" -> "helium"
    [] nm = "Lithium" -> "lithium"     [] nm = "Beryllium" -> "beryllium"
    [] nm = "Boron" -> "boron"         [] nm = "Carbon" -> "carbon"
    [] nm = "Nitrogen" -> "nitrogen"   [] nm = "Oxygen" -> "oxygen"
    [] nm = "Fluorine" -> "fluorine"   [] nm = "Neon" -> "neon"
    [] nm = "Sodium" -> "sodium"       [] nm = "Magnesium" -> "magnesium"
    [] nm = "Aluminum" -> "aluminum"   [] nm = "Silicon" -> "silicon"
    [] nm = "Phosphorus" -> "phosphorus" [] nm = "Sulfur" -> "sulfur"
    [] nm = "Chlorine" -> "chlorine"   [] nm = "Argon" -> "argon"
    [] OTHER -> nm

\* the placeholder of the engine: it counts no bond at all
getCurrentBondCount(atom) == 0

\* an activation energy without its floor
calculateActivationEnergyUnfloored(atomA, atomB) ==
  LET elementA == CHEMICAL_ELEMENTS[atomA.protons]
      elementB == CHEMICAL_ELEMENTS[atomB.protons]
  IN (elementA.ionizationEnergy + elementB.ionizationEnergy)
       * (400 - Abs(elementA.electronegativity - elementB.electronegativity)) * 125

\* calculateActivationEnergy: avgIonization * (1 - diff/4) * 0.1, floored at
\* 1.  With the ionization energies in tenths and the difference in
\* hundredths, the first operand of Math.max is
\* (ieA + ieB) * (400 - diff) / 80000, that is (ieA + ieB) * (400 - diff) * 125
\* energy units.
calculateActivationEnergy(atomA, atomB) ==
  LET elementA == CHEMICAL_ELEMENTS[atomA.protons]
      elementB == CHEMICAL_ELEMENTS[atomB.protons]
      electronegativityDiff ==
        Abs(elementA.electronegativity - elementB.electronegativity)
  IN Max2((elementA.ionizationEnergy + elementB.ionizationEnergy)
            * (400 - electronegativityDiff) * 125, Hundredths(100))

\* the pairs of elements for which the double calculateActivationEnergy
\* returns lies above the decimal value of the formula: for C-C,
\* 11.3 * (1 - 0 / 4) * 0.1 is 1.1300000000000001, for N-N 14.5 * 0.1 is
\* 1.4500000000000002.  Pairs are written with the lower atomic number first.
activationEnergyRoundedUp ==
  {<<1, 6>>, <<1, 7>>, <<1, 15>>, <<1, 17>>, <<2, 2>>, <<2, 4>>, <<2, 12>>,
   <<2, 18>>, <<3, 10>>, <<6, 6>>, <<7, 7>>, <<7, 8>>, <<7, 9>>, <<7, 17>>,
   <<8, 17>>, <<9, 17>>, <<10, 11>>, <<10, 18>>}

\* systemEnergy >= activationEnergy on doubles: an energy equal to the decimal
\* value of the formula is under the double of a pair that is rounded up
reachesActivationEnergy(atomA, atomB, systemEnergy) ==
  LET activationEnergy == calculateActivationEnergy(atomA, atomB)
  IN \/ systemEnergy > activationEnergy
     \/ /\ systemEnergy = activationEnergy
        /\ <<Min2(atomA.protons, atomB.protons), Max2(atomA.protons, atomB.protons)>>
             \notin activationEnergyRoundedUp

\* an engine that looks the elements up and compares the energies only
canFormBondByEnergy(atomA, atomB, systemEnergy) ==
  IF ~HasElement(atomA.protons) \/ ~HasElement(atomB.protons) THEN FALSE
  ELSE reachesActivationEnergy(atomA, atomB, systemEnergy)

canFormBond(atomA, atomB, systemEnergy) ==
  IF ~HasElement(atomA.protons) \/ ~HasElement(atomB.protons) THEN FALSE
  ELSE IF CHEMICAL_ELEMENTS[atomA.protons].maxBonds = 0
          \/ CHEMICAL_ELEMENTS[atomB.protons].maxBonds = 0 THEN FALSE
  ELSE IF getCurrentBondCount(atomA) >= CHEMICAL_ELEMENTS[atomA.protons].maxBonds
          \/ getCurrentBondCount(atomB) >= CHEMICAL_ELEMENTS[atomB.protons].maxBonds
       THEN FALSE
  ELSE reachesActivationEnergy(atomA, atomB, systemEnergy)

\* Array.prototype.reduce without an initial value: the first atom is the
\* first best, and a later atom replaces it only on a strictly higher score
RECURSIVE findOptimalCentralAtomFrom(_, _)
findOptimalCentralAtomFrom(best, rest) ==
  IF rest = <<>> THEN best
  ELSE LET current == Head(rest)
           keep == ~HasElement(current.protons) \/ ~HasElement(best.protons)
           currentScore == 100 * CHEMICAL_ELEMENTS[current.protons].maxBonds
                           - CHEMICAL_ELEMENTS[current.protons].electronegativity
           bestScore == 100 * CHEMICAL_ELEMENTS[best.protons].maxBonds
                        - CHEMICAL_ELEMENTS[best.protons].electronegativity
       IN findOptimalCentralAtomFrom(
            IF keep THEN best
            ELSE IF currentScore > bestScore THEN current ELSE best,
            Tail(rest))

findOptimalCentralAtom(atomList) ==
  findOptimalCentralAtomFrom(Head(atomList), Tail(atomList))

calculateBondOrder(elementA, elementB) ==
  Min2(Min2(Min2(elementA.valenceElectrons, elementA.maxBonds),
            Min2(elementB.valenceElectrons, elementB.maxBonds)), 3)

\* bondEnergy in units of 0.0075: (enA + enB) * 50 * (order * 1.5) * type,
\* with the type multiplier 1.5, 0.3, 1.0 written as 15, 3, 10
calculateBondEnergy(elementA, elementB, bondOrder, bondType) ==
  (elementA.electronegativity + elementB.electronegativity) * bondOrder
    * (IF bondType = "ionic" THEN 15 ELSE IF bondType = "hydrogen" THEN 3 ELSE 10)

\* calculateBondEnergy multiplies doubles, and the product of a pair of
\* elements can lie one step above or below the double nearest to its decimal
\* value: above for the pairs of bondEnergyRoundedUp, below for those of
\* bondEnergyRoundedDown (Al-Cl gives 1073.2500000000002, P-S
\* 1073.2499999999998). Pairs are written with the lower atomic number first.
bondEnergyRoundedUp ==
  {<<1, 1>>, <<1, 4>>, <<1, 11>>, <<1, 13>>, <<1, 15>>, <<3, 17>>, <<4, 5>>,
   <<4, 7>>, <<4, 16>>, <<4, 17>>, <<5, 13>>, <<5, 15>>, <<7, 13>>, <<11, 12>>,
   <<12, 17>>, <<13, 16>>, <<13, 17>>, <<14, 16>>, <<14, 17>>}

bondEnergyRoundedDown ==
  {<<1, 7>>, <<1, 8>>, <<1, 9>>, <<1, 14>>, <<3, 4>>, <<3, 7>>, <<6, 6>>,
   <<6, 9>>, <<6, 14>>, <<7, 12>>, <<7, 14>>, <<15, 16>>}

\* 1, 0 or -1: where the double of a pair's bond energy lies
bondEnergyRounding(protonsA, protonsB) ==
  LET pair == <<Min2(protonsA, protonsB), Max2(protonsA, protonsB)>>
  IN IF pair \in bondEnergyRoundedUp THEN 1
     ELSE IF pair \in bondEnergyRoundedDown THEN -1
     ELSE 0

\* the BondingPair of two atoms whose elements are both in the catalog
calculateBondProperties(atomA, atomB) ==
  LET elementA == CHEMICAL_ELEMENTS[atomA.protons]
      elementB == CHEMICAL_ELEMENTS[atomB.protons]
      electronegativityDiff ==
        Abs(elementA.electronegativity - elementB.electronegativity)
      bondType ==
        IF (atomA.protons = 1 /\ atomB.protons \in {7, 8, 9})
           \/ (atomB.protons = 1 /\ atomA.protons \in {7, 8, 9}) THEN "hydrogen"
        ELSE IF electronegativityDiff > 170 THEN "ionic"
        ELSE "covalent"
      bondOrder == calculateBondOrder(elementA, elementB)
  IN [atomA |-> atomA, atomB |-> atomB, bondOrder |-> bondOrder,
      bondType |-> bondType,
      bondEnergy |-> calculateBondEnergy(elementA, elementB, bondOrder, bondType)]

RECURSIVE IndexPairs(_, _, _)
\* the index pairs of "for i ... for j = i + 1 ..." in the order of the loops
IndexPairs(i, j, n) ==
  IF i >= n THEN <<>>
  ELSE IF j > n THEN IndexPairs(i + 1, i + 2, n)
  ELSE <<(<<i, j>>)>> \o IndexPairs(i, j + 1, n)

RECURSIVE selectBonds(_, _, _)
\* the selection loop of calculateOptimalBondingStructure: a pair is taken
\* when both counts are below maxBonds, and then adds its bond ORDER to both
selectBonds(possibleBonds, atomBondCounts, selected) ==
  IF possibleBonds = <<>> THEN selected
  ELSE LET bond == Head(possibleBonds)
           currentBondsA == atomBondCounts[bond.atomA.id]
           currentBondsB == atomBondCounts[bond.atomB.id]
           take == currentBondsA < CHEMICAL_ELEMENTS[bond.atomA.protons].maxBonds
                   /\ currentBondsB < CHEMICAL_ELEMENTS[bond.atomB.protons].maxBonds
       IN IF take
          THEN selectBonds(Tail(possibleBonds),
                 [atomBondCounts EXCEPT
                    ![bond.atomA.id] = currentBondsA + bond.bondOrder,
                    ![bond.atomB.id] = currentBondsB + bond.bondOrder],
                 Append(selected, bond))
          ELSE selectBonds(Tail(possibleBonds), atomBondCounts, selected)

\* lonePairs and totalElectronPairs are kept doubled (lonePairs2, total2) so
\* that the halves the division by 2 produces stay integers
determineGeometry(atomList, bondList, centralAtom) ==
  IF Len(atomList) = 1 THEN "atomic"
  ELSE IF Len(atomList) = 2 THEN "linear"
  ELSE IF ~HasElement(centralAtom.protons) THEN "unknown"
  ELSE LET bondCount == Cardinality({i \in DOMAIN bondList :
                          bondList[i].atomA.id = centralAtom.id
                          \/ bondList[i].atomB.id = centralAtom.id})
           lonePairs2 == Max2(0, CHEMICAL_ELEMENTS[centralAtom.protons].valenceElectrons
                                  - bondCount * 2)
           total2 == 2 * bondCount + lonePairs2
       IN CASE total2 = 4 -> "linear"
            [] total2 = 6 -> IF lonePairs2 = 0 THEN "trigonal_planar" ELSE "bent"
            [] total2 = 8 /\ lonePairs2 = 0 -> "tetrahedral"
            [] total2 = 8 /\ lonePairs2 = 2 -> "trigonal_pyramidal"
            [] total2 = 8 /\ lonePairs2 = 4 -> "bent"
            [] total2 = 10 /\ lonePairs2 = 0 -> "trigonal_bipyramidal"
            [] total2 = 10 /\ lonePairs2 = 2 -> "seesaw"
            [] total2 = 10 /\ lonePairs2 = 4 -> "T_shaped"
            [] total2 = 10 /\ lonePairs2 = 6 -> "linear"
            [] total2 = 12 /\ lonePairs2 = 0 -> "octahedral"
            [] total2 = 12 /\ lonePairs2 = 2 -> "square_pyramidal"
            [] total2 = 12 /\ lonePairs2 = 4 -> "square_planar"
            [] OTHER -> "complex"

\* calculateMolecularPositions without a centralAtom argument: the ids the
\* returned Map has a position for.  One or two atoms are all placed; else
\* the centre and, in list order, the other atoms, of which 'tetrahedral'
\* and 'trigonal_pyramidal' place the first four only
calculateMolecularPositions(atomList, geometry) ==
  IF Len(atomList) <= 2 THEN {atomList[i].id : i \in DOMAIN atomList}
  ELSE LET centralAtom == findOptimalCentralAtom(atomList)
           otherAtoms == SelectSeq(atomList, LAMBDA a : a.id # centralAtom.id)
       IN {centralAtom.id}
          \cup {otherAtoms[i].id :
                  i \in {k \in DOMAIN otherAtoms :
                           geometry \in {"tetrahedral", "trigonal_pyramidal"}
                             => k <= 4}}

calculateOptimalBondingStructure(atomList) ==
  IF Len(atomList) < 2
  THEN [bonds |-> <<>>, centralAtom |-> [id |-> -1, protons |-> 0],
        hasCentral |-> FALSE, geometry |-> "atomic"]
  ELSE LET centralAtom == findOptimalCentralAtom(atomList)
           pairs == SelectSeq(IndexPairs(1, 2, Len(atomList)),
                      LAMBDA ij : HasElement(atomList[ij[1]].protons)
                                  /\ HasElement(atomList[ij[2]].protons))
           possibleBonds ==
             [k \in DOMAIN pairs |->
                calculateBondProperties(atomList[pairs[k][1]], atomList[pairs[k][2]])]
           sorted == SortStable(possibleBonds,
                       LAMBDA x, y :
                         \/ x.bondEnergy > y.bondEnergy
                         \/ /\ x.bondEnergy = y.bondEnergy
                            /\ bondEnergyRounding(x.atomA.protons, x.atomB.protons)
                                 > bondEnergyRounding(y.atomA.protons,
                                                      y.atomB.protons))
           bonds == selectBonds(sorted,
                      [id \in {atomList[i].id : i \in DOMAIN atomList} |-> 0], <<>>)
       IN [bonds |-> bonds, centralAtom |-> centralAtom, hasCentral |-> TRUE,
           geometry |-> determineGeometry(atomList, bonds, centralAtom)]

RECURSIVE DistinctInOrder(_)
\* the keys of a Map filled in list order: first occurrences, in order
DistinctInOrder(s) ==
  IF s = <<>> THEN <<>>
  ELSE LET front == DistinctInOrder(SubSeq(s, 1, Len(s) - 1))
       IN IF s[Len(s)] \in Range(front) THEN front ELSE Append(front, s[Len(s)])

CountOf(atomList, protons) ==
  Cardinality({i \in DOMAIN atomList : atomList[i].protons = protons})

SubscriptDigit == <<"₀", "₁", "₂", "₃", "₄", "₅", "₆", "₇", "₈", "₉">>

\* count.toString().split('').map(d => '₀₁₂₃₄₅₆₇₈₉'[parseInt(d)]).join('')
Subscript(count) ==
  LET ds == Digits(count)
  IN Join([k \in DOMAIN ds |-> SubscriptDigit[ds[k] + 1]], "")

prefixes ==
  <<"", "mono", "di", "tri", "tetra", "penta", "hexa", "hepta", "octa", "nona", "deca">>

generateSystematicName(atomList) ==
  LET composition ==
        DistinctInOrder([i \in DOMAIN atomList |-> atomList[i].protons])
      sortedElements ==
        SortStable(SelectSeq(composition, HasElement),
          LAMBDA p, q : CHEMICAL_ELEMENTS[p].electronegativity
                        < CHEMICAL_ELEMENTS[q].electronegativity)
      prefix(count) ==
        IF count > 1
        THEN (IF count + 1 \in DOMAIN prefixes THEN prefixes[count + 1]
              ELSE ToString(count) \o "-")
        ELSE ""
      parts == [k \in DOMAIN sortedElements |->
                  prefix(CountOf(atomList, sortedElements[k]))
                  \o toLowerCase(CHEMICAL_ELEMENTS[sortedElements[k]].name)]
      formulaParts == [k \in DOMAIN sortedElements |->
                  CHEMICAL_ELEMENTS[sortedElements[k]].symbol
                  \o (IF CountOf(atomList, sortedElements[k]) > 1
                      THEN Subscript(CountOf(atomList, sortedElements[k])) ELSE "")]
  IN Join(parts, " ") \o " (" \o Join(formulaParts, "") \o ")"

\* ------------------------------------------------------------------------
\* Bounds of the model
\* ------------------------------------------------------------------------
\* atoms alive at once
MaxAtoms == 3

\* atoms ever built (nextId stops here)
MaxId == 3

\* the highest proton count canFormBond is asked about; the catalog ends at 18
MaxProtons == 19

\* the longest component identifyMoleculeType is asked about
MaxTypeAtoms == 5

\* the longest list calculateMolecularPositions is asked about
MaxPlacedAtoms == 6

\* atoms ever built where experiments are loaded (nextId stops here)
MaxLoadedId == 6

\* atoms ever built once the reactants of a recipe are loaded, between the
\* frames, the deletions and the experiments of SpecClearM
MaxRecipeId == 5

\* atoms ever built once the reactants of a recipe are loaded from the catalog
\* alone (SpecCatalogM): the eight atoms of ammonia after the first two
MaxCatalogId == 10

\* the heat above which the energy panel is not used again, hundredths
MaxHeat == 2000

\* the depth below zero beyond which no negative amount is added, hundredths
MaxDebt == 500

\* identifyMolecules timers pending at once
MaxPending == 2

\* frames that decay the heat after it was last set: the count of the
\* mode-based component saturates here; simulation.component.ts, and the
\* mode-based component where its frames move the atoms (SpecEnergyM), run
\* no further frame while there is heat left
MaxTicks == 1

\* the atomic numbers the periodic table panel is asked for
ElementChoices == {1, 3, 8}

\* the atomic numbers the periodic table gives the selected atom of
\* simulation.component.ts
ElementChoicesS == {1, 8}

\* the values the heat intensity slider is moved to
HeatIntensityChoices == {10}

\* the distances taken first to stand for what the physics step of
\* molecular-recipes.interface.ts leaves between two bodies: 1.50 is under the
\* bond threshold 4.0 and under every break length; 3.80 is under the bond
\* threshold and over the break length of H-H (3.7); 6.00 is between the
\* bond threshold and the attraction threshold 8.0; 11.00 is over the
\* attraction threshold and over every break length (two atoms of the
\* default radius: 10.0).  A pair whose own break length leaves none of them
\* on one side gets one more distance there (distanceClasses).
DistValsM == {150, 380, 600, 1100}

\* the distances taken first to stand for what the physics step of
\* simulation.component.ts leaves between two bodies: 1.50 is under every
\* break length; 3.40 is under the bond threshold 3.5 and over the break
\* lengths of H-H (2.22) and H-O (3.3); 3.80 is between the bond threshold
\* and the proximity 5.0 of shouldFormBond; 5.50 is between that proximity
\* and the 6.0 of the multi-atom combinations; 6.50 is over all of them and
\* over every break length (two atoms of the default radius: 6.0).  A pair
\* whose own thresholds leave none of them on one side gets one more
\* distance there (distanceClasses).
DistValsS == {150, 340, 380, 550, 650}

\* the kinetic term of calculateSystemEnergy: bodies at rest (0), or moving
\* (1.50)
KineticVals == {0, Hundredths(150)}

\* the amounts addSystemEnergy is called with: the two buttons of the energy
\* panel (5 and 20), and a negative number (-5)
EnergyAmounts == {Hundredths(500), Hundredths(2000), -Hundredths(500)}

\* ------------------------------------------------------------------------
\* State
\* ------------------------------------------------------------------------
VARIABLES
  atoms,                   \* this.atoms: sequence of [id, protons, isMoleculeMember]
  nextId,                  \* this.nextId
  bonds,                   \* this.bonds: sequence of [atomA, atomB] (atom ids)
  molecules,               \* this.molecules: sequence of [id, name, atoms, geometry]
  discoveredMolecules,     \* this.discoveredMolecules: sequence of names
  transientHeatEnergy,     \* this.transientHeatEnergy, in energy units
  bondingCooldowns,        \* cooldown keys whose window has not elapsed
  identifyTimers,          \* pending setTimeout(() => identifyMolecules(), 100)
  isPaused,                \* this.isPaused
  currentSimulationMode,   \* this.currentSimulationMode
  manualBondingMode,       \* this.manualBondingMode
  selectedAtomsForBonding, \* this.selectedAtomsForBonding: sequence of atom ids
  selectedAtom,            \* this.selectedAtom: the id of the atom, -1 for null
  reactionInProgress,      \* this.reactionInProgress
  bondingTransitions,      \* this.bondingTransitions: gradual bonds in progress
  timers,                  \* pending reaction continuations
  bodiesPlaced,            \* no physics step has run since
                           \* createOptimalMolecularStructure placed its atoms
  heatIntensity,           \* this.heatIntensity (simulation.component.ts)
  component,               \* which SimulationComponent runs: "mode" or "sim"
  removedAtoms,            \* the atom objects deleteAtom of simulation.component.ts
                           \* took out of this.atoms, which bonds, molecules
                           \* and callbacks may still hold: sequence of atoms
  ticks,                   \* frames that decayed the heat since it was last set
  identifyOrigins,         \* what set each pending identifyMolecules timer of
                           \* simulation.component.ts, the oldest first: the
                           \* stress check, or the atoms of a combination
  brokenMolecule,          \* the molecule object breakMolecule was last handed
                           \* (history)
  last                     \* what the last operation did (history)

coreVars == <<atoms, nextId, bonds, molecules, discoveredMolecules>>

uiVarsM == <<isPaused, currentSimulationMode, manualBondingMode, selectedAtomsForBonding,
             selectedAtom>>

\* what no operation of the mode-based component writes
simVars == <<reactionInProgress, bondingTransitions, timers, bodiesPlaced,
             heatIntensity, component, removedAtoms, identifyOrigins,
             brokenMolecule>>

\* the same without the deleted atom objects, which identifyMolecules of
\* simulation.component.ts can mark as members
reactionVars == <<reactionInProgress, bondingTransitions, timers, bodiesPlaced,
                  heatIntensity, component, brokenMolecule>>

vars == <<atoms, nextId, bonds, molecules, discoveredMolecules,
          transientHeatEnergy, bondingCooldowns,
          identifyTimers, isPaused, currentSimulationMode, manualBondingMode,
          selectedAtomsForBonding, selectedAtom, reactionInProgress,
          bondingTransitions, timers, bodiesPlaced, heatIntensity, component, removedAtoms, ticks,
          identifyOrigins, brokenMolecule,
          last>>

\* the distances taken first for the running component
DistVals == IF component = "mode" THEN DistValsM ELSE DistValsS

\* history record of one operation:
\*   requests  the bond requests made (createBond / createManualBond calls)
\*   added     the bond records pushed, each with the verdict canFormBond
\*             gives for the pair and the system energy at that moment
\*   checked   the bond records the stress check looked at
\*   dist      the distance measured for each requested pair and for the two
\*             ends of each checked bond
\*   scanned   checkAndCreateBonds of the mode-based component ran its loops
\*   evaluated (frames of the mode-based component) the pairs the scan handed
\*             to shouldFormBond
\*   systemEnergy  the value of calculateSystemEnergy() an operation of the
\*             mode-based component read
\*   reaction  (frames of simulation.component.ts only) the reaction
\*             attemptMolecularReactions started in the frame, or "none"
NoHistory(op) ==
  [op |-> op, requests |-> {}, added |-> {}, checked |-> {},
   dist |-> [p \in {} |-> 0], scanned |-> FALSE, systemEnergy |-> 0]

\* the origin of an identifyMolecules timer that no reaction has set: the
\* stress check of updateBondVisuals
StressCheck == <<>>

\* breakMolecule has been handed no molecule yet
NoMolecule ==
  [id |-> "", name |-> "", atoms |-> <<>>, geometry |-> "", listed |-> FALSE]

\* the molecule object breakMolecule is handed, and whether this.molecules
\* holds the object at that moment
Handed(molecule, moleculeList) ==
  [id |-> molecule.id, name |-> molecule.name, atoms |-> molecule.atoms,
   geometry |-> molecule.geometry,
   listed |-> \E m \in DOMAIN moleculeList : moleculeList[m] = molecule]

\* the history of deleteAtom names the atom it was given
Deleted(id) ==
  [op |-> "deleteAtom", deleted |-> id, requests |-> {}, added |-> {},
   checked |-> {}, dist |-> [p \in {} |-> 0], scanned |-> FALSE,
   systemEnergy |-> 0]

AtomIds == {atoms[i].id : i \in DOMAIN atoms}

\* this.atoms.length > 0 ? this.atoms[0] : null, by id
firstAtomOrNull(atomList) == IF atomList = <<>> THEN -1 ELSE atomList[1].id

AtomOf(atomList, id) == atomList[CHOOSE i \in DOMAIN atomList : atomList[i].id = id]

\* every atom object simulation.component.ts can still reach: the atoms of
\* this.atoms and the deleted ones
Heap == atoms \o removedAtoms

PairsOf(ids) == {p \in SUBSET ids : Cardinality(p) = 2}

HasFreeAtom(atomList) == \E i \in DOMAIN atomList : ~atomList[i].isMoleculeMember

\* calculateSystemEnergy adds the kinetic energy of the free atoms only
KineticChoices(atomList) == IF HasFreeAtom(atomList) THEN KineticVals ELSE {0}

bondExists(bondList, a, b) ==
  \E i \in DOMAIN bondList :
     \/ (bondList[i].atomA = a /\ bondList[i].atomB = b)
     \/ (bondList[i].atomA = b /\ bondList[i].atomB = a)

\* ------------------------------------------------------------------------
\* Connected components, shared by both identifyMolecules
\* ------------------------------------------------------------------------
IsMemberId(atomList, id) ==
  \E i \in DOMAIN atomList : atomList[i].id = id /\ atomList[i].isMoleculeMember

RECURSIVE visitNeighbors(_, _, _, _, _)
\* the inner "for (const bond of connectedBonds)" of the traversal
visitNeighbors(connectedBonds, current, atomList, checkedAtoms, toVisit) ==
  IF connectedBonds = <<>> THEN [checkedAtoms |-> checkedAtoms, toVisit |-> toVisit]
  ELSE LET bond == Head(connectedBonds)
           neighbor == IF bond.atomA = current THEN bond.atomB ELSE bond.atomA
           fresh == ~IsMemberId(atomList, neighbor) /\ neighbor \notin checkedAtoms
       IN visitNeighbors(Tail(connectedBonds), current, atomList,
            IF fresh THEN checkedAtoms \cup {neighbor} ELSE checkedAtoms,
            IF fresh THEN Append(toVisit, neighbor) ELSE toVisit)

RECURSIVE traverse(_, _, _, _, _)
\* the "while (toVisit.length > 0)" loop: pop from the end, append to the
\* component, push the unchecked free neighbours in bond-list order
traverse(toVisit, checkedAtoms, connectedComponent, atomList, bondList) ==
  IF toVisit = <<>>
  THEN [connectedComponent |-> connectedComponent, checkedAtoms |-> checkedAtoms]
  ELSE LET current == toVisit[Len(toVisit)]
           connectedBonds ==
             SelectSeq(bondList, LAMBDA b : b.atomA = current \/ b.atomB = current)
           r == visitNeighbors(connectedBonds, current, atomList, checkedAtoms,
                               SubSeq(toVisit, 1, Len(toVisit) - 1))
       IN traverse(r.toVisit, r.checkedAtoms, Append(connectedComponent, current),
                   atomList, bondList)

\* the ids joined in traversal order, without the sort
moleculeIdUnsorted(connectedComponent) ==
  Join([k \in DOMAIN connectedComponent |-> ToString(connectedComponent[k])], "-")

\* connectedComponent.map(a => a.id).sort().join('-'): the default sort
\* compares the ids as strings
moleculeIdOf(connectedComponent) ==
  LET sorted == SortStable(connectedComponent,
                  LAMBDA a, b : LexLess(Digits(a), Digits(b)))
  IN Join([k \in DOMAIN sorted |-> ToString(sorted[k])], "-")

\* the atom records of a component, in component order
ComponentAtoms(atomList, connectedComponent) ==
  [k \in DOMAIN connectedComponent |-> AtomOf(atomList, connectedComponent[k])]

\* ------------------------------------------------------------------------
\* molecular-recipes.interface.ts, the mode-based component
\* ------------------------------------------------------------------------
elementSymbols ==
  <<"H", "He", "Li", "Be", "B", "C", "N", "O", "F", "Ne",
    "Na", "Mg", "Al", "Si", "P", "S", "Cl", "Ar">>

\* this.maxBonds[protons] || 4
maxBondsM(protons) ==
  CASE protons = 1 -> 1 [] protons = 6 -> 4 [] protons = 7 -> 3
    [] protons = 8 -> 2 [] protons = 9 -> 1 [] OTHER -> 4

\* this.atomicRadii[protons] || 1.0
atomicRadiiM(protons) ==
  CASE protons = 1 -> 37 [] protons = 6 -> 77 [] protons = 7 -> 75
    [] protons = 8 -> 73 [] protons = 9 -> 71 [] OTHER -> 100

\* this.atomicRadii[protons] || 1.0 of simulation.component.ts
atomicRadiiS(protons) ==
  CASE protons = 1 -> 37 [] protons = 6 -> 77 [] protons = 7 -> 75
    [] protons = 8 -> 73 [] protons = 9 -> 71 [] OTHER -> 100

\* ------------------------------------------------------------------------
\* Distances between the bodies
\* ------------------------------------------------------------------------
\* the two atoms of a pair of ids, the lower id first; the deleted atoms a
\* bond of simulation.component.ts can still hold are looked up too
PairEnds(p) ==
  <<AtomOf(Heap, CHOOSE x \in p : \A y \in p : x <= y),
    AtomOf(Heap, CHOOSE x \in p : \A y \in p : y <= x)>>

\* the lengths a frame of molecular-recipes.interface.ts compares the
\* distance of a pair with: (radiusA + radiusB) * 5.0 in updateBondVisuals,
\* which measures the bonds the frame found and the bonds its scan has made;
\* bondThreshold 4.0 and attractionThreshold 8.0 in the scan, which measures
\* a pair after it has found no bond between the two
thresholdsM(p) ==
  {(atomicRadiiM(PairEnds(p)[1].protons) + atomicRadiiM(PairEnds(p)[2].protons)) * 5}
  \cup (IF \E i \in DOMAIN bonds : {bonds[i].atomA, bonds[i].atomB} = p
         THEN {} ELSE {400, 800})

\* the decay of animate: heat *= 0.96, and a product under 0.01 becomes 0; the
\* test is on the product itself (heat * 0.96 < 0.01),
\* the value kept is the product rounded to the nearest unit
decayS(heat) ==
  IF heat > 0
  THEN LET decayed == (heat \div 100) * 96 + ((heat % 100) * 96 + 50) \div 100
       IN IF heat <= (Hundredths(1) * 100 - 1) \div 96 THEN 0 ELSE decayed
  ELSE heat

\* the frame goes into attemptMolecularReactions past its two guards: no
\* reaction is in progress, and the heat the decay has left is over 20
ReactionsRunS ==
  ~reactionInProgress /\ decayS(transientHeatEnergy) > Hundredths(2000)

\* the lengths a frame of simulation.component.ts compares the distance of a
\* pair with: bondThreshold 3.5 in the scan, which measures a pair after it
\* has found no bond between the two; the 5.0 of shouldFormBond, which is
\* asked of an oxygen atom and an atom of another element; (radiusA +
\* radiusB) * 3.0 in updateBondVisuals, which measures the bonds the frame
\* found and the bond a two-atom combination has made; proximityThreshold 6
\* in attemptMultiAtomCombinations, when the reactions run
thresholdsS(p) ==
  (IF \E i \in DOMAIN bonds : {bonds[i].atomA, bonds[i].atomB} = p
   THEN {} ELSE {350})
  \cup (IF (PairEnds(p)[1].protons = 8) # (PairEnds(p)[2].protons = 8)
         THEN {500} ELSE {})
  \cup (IF ReactionsRunS \/ \E i \in DOMAIN bonds : {bonds[i].atomA, bonds[i].atomB} = p
         THEN {(atomicRadiiS(PairEnds(p)[1].protons)
                + atomicRadiiS(PairEnds(p)[2].protons)) * 3}
         ELSE {})
  \cup (IF ReactionsRunS THEN {600} ELSE {})

\* the class of distances from the lower end lo up to the next of the lower
\* ends (the last class has no upper end), with the distance that stands for
\* it: the least of DistVals inside the class, or, when none of them is, the
\* middle of the class
classFrom(lo, lows) ==
  CHOOSE class \in
    {[lo |-> lo,
      hi |-> IF above = {} THEN lo ELSE CHOOSE h \in above : \A x \in above : h <= x,
      bounded |-> above # {},
      value |->
        IF inside # {} THEN CHOOSE v \in inside : \A w \in inside : v <= w
        ELSE IF above = {} THEN lo + 50
        ELSE (lo + (CHOOSE h \in above : \A x \in above : h <= x)) \div 2] :
       above \in {{x \in lows : x > lo}},
       inside \in {{v \in DistVals : lo < v /\ \A x \in lows : x > lo => v < x}}} : TRUE

\* What a frame does with a pair depends on the side of each threshold its
\* distance is on: the thresholds of the pair cut the distances into
\* classes.  The two ends of a bond from an atom to itself are at the same
\* place.
distanceClasses(p) ==
  IF Cardinality(p) = 1
  THEN {[lo |-> 0, hi |-> 0, bounded |-> TRUE, value |-> 0]}
  ELSE UNION {{classFrom(lo, lows) : lo \in lows} :
                lows \in {{0} \cup (IF component = "mode" THEN thresholdsM(p)
                                    ELSE thresholdsS(p))}}

\* classes that points in space can realise together: in every triangle
\* there are three distances, one of each class, none of them longer than
\* the two others together.  That is so when no class starts at or over the
\* sum of the upper ends of the two others (take each distance just under
\* its upper end, and a side that is then too long as long as the two others
\* together).
Realisable(chosen) ==
  \A x \in chosen :
     (x.class.bounded /\ Cardinality(x.pair) = 2) =>
        \A y \in chosen :
           (/\ y.class.bounded /\ Cardinality(y.pair) = 2
            /\ x.pair # y.pair /\ x.pair \cap y.pair # {}) =>
              \A z \in chosen :
                 z.pair = (x.pair \cup y.pair) \ (x.pair \cap y.pair)
                    => z.class.lo < x.class.hi + y.class.hi

\* one class for each of the pairs, realisable together
RECURSIVE classChoices(_)
classChoices(pairs) ==
  IF pairs = {} THEN {{}}
  ELSE UNION
         {{chosen \in {rest \cup {[pair |-> p, class |-> class]} :
                         rest \in classChoices(pairs \ {p}),
                         class \in distanceClasses(p)} :
             Realisable(chosen)} :
            p \in {CHOOSE q \in pairs : TRUE}}

\* the function from each pair to the distance that stands for its class
distancesOf(chosen) ==
  IF chosen = {} THEN <<>>
  ELSE [p \in {x.pair : x \in chosen} |->
          (CHOOSE x \in chosen : x.pair = p).class.value]

\* the distance functions on a set of pairs: one class for each pair, and
\* the distance that stands for it
DistChoices(pairs) ==
  UNION {{distancesOf(chosen) : chosen \in classChoices(read)} : read \in {pairs}}

\* every mode has autoReactions
autoReactionsInEveryMode(mode) == TRUE

\* SIMULATION_MODES[mode].reactions.autoReactions
autoReactions(mode) == mode # "sandbox"

\* SIMULATION_MODES[mode].reactions.energyDecayRate, in thousandths
energyDecayRate(mode) ==
  CASE mode = "sandbox" -> 990 [] mode = "realistic" -> 960 [] OTHER -> 998

generateMolecularFormula(atomList) ==
  LET composition ==
        DistinctInOrder([i \in DOMAIN atomList |-> atomList[i].protons])
      sortedElements == SortStable(composition, LAMBDA p, q : p < q)
      symbol(protons) == IF protons \in DOMAIN elementSymbols
                         THEN elementSymbols[protons]
                         ELSE "E" \o ToString(protons)
      parts == [k \in DOMAIN sortedElements |->
                  IF CountOf(atomList, sortedElements[k]) = 1
                  THEN symbol(sortedElements[k])
                  ELSE symbol(sortedElements[k])
                       \o Subscript(CountOf(atomList, sortedElements[k]))]
  IN Join(parts, "")

\* a table that looks at the counts of the four elements only, not at the
\* length of the component
identifyMoleculeTypeByCounts(atomList) ==
  LET hCount == CountOf(atomList, 1)
      cCount == CountOf(atomList, 6)
      nCount == CountOf(atomList, 7)
      oCount == CountOf(atomList, 8)
  IN CASE oCount = 1 /\ hCount = 2 ->
            [name |-> "Water (H₂O)", geometry |-> "bent"]
       [] cCount = 1 /\ oCount = 2 ->
            [name |-> "Carbon Dioxide (CO₂)", geometry |-> "linear"]
       [] cCount = 1 /\ hCount = 4 ->
            [name |-> "Methane (CH₄)", geometry |-> "tetrahedral"]
       [] nCount = 1 /\ hCount = 3 ->
            [name |-> "Ammonia (NH₃)", geometry |-> "trigonal_pyramidal"]
       [] hCount = 2 ->
            [name |-> "Hydrogen Gas (H₂)", geometry |-> "linear"]
       [] oCount = 2 ->
            [name |-> "Oxygen Gas (O₂)", geometry |-> "linear"]
       [] nCount = 2 ->
            [name |-> "Nitrogen Gas (N₂)", geometry |-> "linear"]
       [] OTHER ->
            [name |-> "Compound (" \o generateMolecularFormula(atomList) \o ")",
             geometry |-> "complex"]

identifyMoleculeTypeM(atomList) ==
  LET hCount == CountOf(atomList, 1)
      cCount == CountOf(atomList, 6)
      nCount == CountOf(atomList, 7)
      oCount == CountOf(atomList, 8)
      n == Len(atomList)
  IN CASE oCount = 1 /\ hCount = 2 /\ n = 3 ->
            [name |-> "Water (H₂O)", geometry |-> "bent"]
       [] cCount = 1 /\ oCount = 2 /\ n = 3 ->
            [name |-> "Carbon Dioxide (CO₂)", geometry |-> "linear"]
       [] cCount = 1 /\ hCount = 4 /\ n = 5 ->
            [name |-> "Methane (CH₄)", geometry |-> "tetrahedral"]
       [] nCount = 1 /\ hCount = 3 /\ n = 4 ->
            [name |-> "Ammonia (NH₃)", geometry |-> "trigonal_pyramidal"]
       [] hCount = 2 /\ n = 2 ->
            [name |-> "Hydrogen Gas (H₂)", geometry |-> "linear"]
       [] oCount = 2 /\ n = 2 ->
            [name |-> "Oxygen Gas (O₂)", geometry |-> "linear"]
       [] nCount = 2 /\ n = 2 ->
            [name |-> "Nitrogen Gas (N₂)", geometry |-> "linear"]
       [] OTHER ->
            [name |-> "Compound (" \o generateMolecularFormula(atomList) \o ")",
             geometry |-> "complex"]

\* this.valenceElectrons[protons] || 0
valenceElectronsM(protons) ==
  CASE protons = 1 -> 1 [] protons = 6 -> 4 [] protons = 7 -> 5
    [] protons = 8 -> 6 [] protons = 9 -> 7 [] OTHER -> 0

\* this.electronegativity[protons] || 0, in hundredths
electronegativityM(protons) ==
  CASE protons = 1 -> 220 [] protons = 6 -> 255 [] protons = 7 -> 304
    [] protons = 8 -> 344 [] protons = 9 -> 398 [] OTHER -> 0

RECURSIVE findBestCentralAtomFrom(_, _)
\* atoms.reduce without an initial value: valence electrons minus
\* electronegativity, a later atom wins only on a strictly higher score
findBestCentralAtomFrom(best, rest) ==
  IF rest = <<>> THEN best
  ELSE LET current == Head(rest)
           bestScore == 100 * valenceElectronsM(best.protons)
                        - electronegativityM(best.protons)
           currentScore == 100 * valenceElectronsM(current.protons)
                           - electronegativityM(current.protons)
       IN findBestCentralAtomFrom(
            IF currentScore > bestScore THEN current ELSE best, Tail(rest))

findBestCentralAtom(atomList) ==
  findBestCentralAtomFrom(Head(atomList), Tail(atomList))

\* calculateMolecularGeometry: the id of the atom the geometry puts at
\* (0, 0, 0), or -1 when it puts none there (two atoms side by side, or a
\* linear geometry of more than three atoms, which places nothing)
centralAtomOfGeometry(atomList, geometry) ==
  IF Len(atomList) = 2 /\ geometry \notin {"bent", "tetrahedral", "trigonal_pyramidal"}
  THEN -1
  ELSE IF geometry = "linear" /\ Len(atomList) # 3 THEN -1
  ELSE findBestCentralAtom(atomList).id

\* a registry that takes every name it is given
discoverAlways(discovered, name) == Append(discovered, name)

\* if (!this.discoveredMolecules.includes(name)) this.discoveredMolecules.push(name),
\* the same in both components
discover(discovered, name) ==
  IF name \in Range(discovered) THEN discovered ELSE Append(discovered, name)

\* a createMolecule that removes only the bonds of the component's first atom
createMoleculeFirstAtomBonds(moleculeId, moleculeInfo, connectedComponent, st) ==
  LET inside == Range(connectedComponent)
      first == connectedComponent[1]
  IN [atoms |-> [i \in DOMAIN st.atoms |->
                   IF st.atoms[i].id \in inside
                   THEN [st.atoms[i] EXCEPT !.isMoleculeMember = TRUE]
                   ELSE st.atoms[i]],
      bonds |-> SelectSeq(st.bonds,
                   LAMBDA b : ~(b.atomA = first \/ b.atomB = first)),
      molecules |-> Append(st.molecules,
                   [id |-> moleculeId, name |-> moleculeInfo.name,
                    atoms |-> connectedComponent,
                    geometry |-> moleculeInfo.geometry]),
      discoveredMolecules |-> discover(st.discoveredMolecules, moleculeInfo.name)]

\* createMolecule and the push that follows it: the atoms become members,
\* the bonds between them leave the bond set, the molecule joins the list
createMoleculeM(moleculeId, moleculeInfo, connectedComponent, st) ==
  LET inside == Range(connectedComponent)
  IN [atoms |-> [i \in DOMAIN st.atoms |->
                   IF st.atoms[i].id \in inside
                   THEN [st.atoms[i] EXCEPT !.isMoleculeMember = TRUE]
                   ELSE st.atoms[i]],
      bonds |-> SelectSeq(st.bonds,
                   LAMBDA b : ~(b.atomA \in inside /\ b.atomB \in inside)),
      molecules |-> Append(st.molecules,
                   [id |-> moleculeId, name |-> moleculeInfo.name,
                    atoms |-> connectedComponent,
                    geometry |-> moleculeInfo.geometry]),
      discoveredMolecules |-> discover(st.discoveredMolecules, moleculeInfo.name)]

RECURSIVE identifyFromM(_, _, _)
\* the "for (const atom of this.atoms)" loop of identifyMolecules, from index k
identifyFromM(k, checkedAtoms, st) ==
  IF k > Len(st.atoms) THEN st
  ELSE IF st.atoms[k].id \in checkedAtoms \/ st.atoms[k].isMoleculeMember
       THEN identifyFromM(k + 1, checkedAtoms, st)
  ELSE LET t == traverse(<<st.atoms[k].id>>, checkedAtoms \cup {st.atoms[k].id},
                         <<>>, st.atoms, st.bonds)
           moleculeId == moleculeIdOf(t.connectedComponent)
           existingMolecule ==
             \E m \in DOMAIN st.molecules : st.molecules[m].id = moleculeId
           st2 == IF Len(t.connectedComponent) >= 2 /\ ~existingMolecule
                  THEN createMoleculeM(moleculeId,
                         identifyMoleculeTypeM(
                           ComponentAtoms(st.atoms, t.connectedComponent)),
                         t.connectedComponent, st)
                  ELSE st
       IN identifyFromM(k + 1, t.checkedAtoms, st2)

identifyMoleculesM(st) == identifyFromM(1, {}, st)

\* the collections identifyMolecules reads and writes, and the deleted atom
\* objects the bonds can lead it to
Core == [atoms |-> atoms, bonds |-> bonds, molecules |-> molecules,
         discoveredMolecules |-> discoveredMolecules, removed |-> removedAtoms,
         thrown |-> FALSE]

countAtomBonds(bondList, id) ==
  Cardinality({i \in DOMAIN bondList :
                 bondList[i].atomA = id \/ bondList[i].atomB = id})

shouldFormBondM(atomA, atomB, bondList, systemEnergy) ==
  IF ~canFormBond(atomA, atomB, systemEnergy) THEN FALSE
  ELSE countAtomBonds(bondList, atomA.id) < maxBondsM(atomA.protons)
       /\ countAtomBonds(bondList, atomB.id) < maxBondsM(atomB.protons)

\* createBond without the identification: the duplicate check in both
\* orders of the id, then the push
createBondM(bondList, a, b) ==
  IF bondExists(bondList, a, b) THEN bondList
  ELSE Append(bondList, [atomA |-> a, atomB |-> b])

\* the cooldown key `${min}-${max}` of a pair, as the set of its two ids
cooldownKey(a, b) == {a, b}

RECURSIVE scanPairsM(_, _, _, _, _)
\* the double loop of checkAndCreateBonds over the index pairs still to visit;
\* sc carries the bond list, the cooldowns, the timers set and the history
scanPairsM(pairs, sc, atomList, d, systemEnergy) ==
  IF pairs = <<>> THEN sc
  ELSE LET atomA == atomList[Head(pairs)[1]]
           atomB == atomList[Head(pairs)[2]]
           skip == \/ atomA.isMoleculeMember \/ atomB.isMoleculeMember
                   \/ bondExists(sc.bonds, atomA.id, atomB.id)
                   \/ cooldownKey(atomA.id, atomB.id) \in sc.cooldowns
           form == ~skip /\ d[{atomA.id, atomB.id}] < 400
                   /\ shouldFormBondM(atomA, atomB, sc.bonds, systemEnergy)
       IN scanPairsM(Tail(pairs),
            IF form
            THEN [sc EXCEPT
                  !.bonds = createBondM(sc.bonds, atomA.id, atomB.id),
                  !.cooldowns = sc.cooldowns \cup {cooldownKey(atomA.id, atomB.id)},
                  !.timersSet = sc.timersSet + 1,
                  !.requests = sc.requests \cup {<<atomA.id, atomB.id>>},
                  !.added = sc.added \cup
                    {[atomA |-> atomA.id, atomB |-> atomB.id,
                      allowed |-> canFormBond(atomA, atomB, systemEnergy)]}]
            ELSE sc,
            atomList, d, systemEnergy)

\* checkAndCreateBonds; due is the outcome of the bondCheckInterval throttle
checkAndCreateBondsM(due, d, systemEnergy) ==
  LET sc0 == [bonds |-> bonds, cooldowns |-> bondingCooldowns, timersSet |-> 0,
              requests |-> {}, added |-> {}, scanned |-> FALSE]
  IN IF reactionInProgress \/ isPaused THEN sc0
     ELSE IF ~autoReactions(currentSimulationMode) THEN sc0
     ELSE IF ~due THEN sc0
     ELSE scanPairsM(IndexPairs(1, 2, Len(atoms)), [sc0 EXCEPT !.scanned = TRUE],
                     atoms, d, systemEnergy)

\* the pairs a scan hands to shouldFormBond: two free atoms with no bond
\* between them and no cooldown key, closer than bondThreshold = 4.0 (first
\* arm) or closer than attractionThreshold = 8.0 (else-if arm)
evaluatedPairsM(scanned, d) ==
  IF ~scanned THEN {}
  ELSE {p \in PairsOf(AtomIds) :
          /\ \A id \in p : ~IsMemberId(atoms, id)
          /\ \A i \in DOMAIN bonds : {bonds[i].atomA, bonds[i].atomB} # p
          /\ p \notin bondingCooldowns
          /\ d[p] < 800}

\* (radiusA + radiusB) * 5.0
maxBondLengthM(atomList, bond) ==
  (atomicRadiiM(AtomOf(atomList, bond.atomA).protons)
   + atomicRadiiM(AtomOf(atomList, bond.atomB).protons)) * 5

\* the pairs of radii whose (radiusA + radiusB) * 5.0 is, as a double, one
\* rounding step under its decimal value: 0.71 + 0.73 gives 7.199999999999999
maxBondLengthRoundedDownM == {{71, 73}}

\* distance > maxBondLength on the doubles of the program
longerThanMaxM(atomList, bond, distance) ==
  \/ distance > maxBondLengthM(atomList, bond)
  \/ /\ distance = maxBondLengthM(atomList, bond)
     /\ {atomicRadiiM(AtomOf(atomList, bond.atomA).protons),
         atomicRadiiM(AtomOf(atomList, bond.atomB).protons)}
           \in maxBondLengthRoundedDownM

\* the bonds updateBondVisuals finds longer than their maxBondLength
bondsToRemoveM(bondList, atomList, d) ==
  {i \in DOMAIN bondList :
     longerThanMaxM(atomList, bondList[i],
                    d[{bondList[i].atomA, bondList[i].atomB}])}

\* a frame that leaves the heat as it is
decayNever(heat, mode) == heat

\* the energy decay of animate: heat *= rate, and a product under 0.1 becomes
\* 0; the test is on the product itself (heat * rate < 0.1, with the rate in
\* thousandths), the value kept is the product rounded to the nearest unit
decayM(heat, mode) ==
  IF heat > 0
  THEN LET rate == energyDecayRate(mode)
           decayed == (heat \div 1000) * rate + ((heat % 1000) * rate + 500) \div 1000
       IN IF heat <= (Hundredths(10) * 1000 - 1) \div rate THEN 0 ELSE decayed
  ELSE heat

\* One frame of animate.  The physics step (or a pointer drag while paused)
\* leaves the bodies at distances d and the kinetic term of the system
\* energy at k; due is the outcome of the throttle of the scan.
animateM(d, k, due) ==
  \E heat \in {IF isPaused THEN transientHeatEnergy
                ELSE decayM(transientHeatEnergy, currentSimulationMode)} :
  \E sc \in {checkAndCreateBondsM(due, d, heat + k)} :
  \E gone \in {bondsToRemoveM(sc.bonds, atoms, d)} :
  \E timersSet \in {sc.timersSet + (IF gone = {} THEN 0 ELSE 1)} :
     /\ identifyTimers + timersSet <= MaxPending
     /\ transientHeatEnergy' = heat
     /\ bonds' = SelectSeq(sc.bonds, LAMBDA b : \A i \in gone : sc.bonds[i] # b)
     /\ bondingCooldowns' = sc.cooldowns
     /\ identifyTimers' = identifyTimers + timersSet
     /\ ticks' = IF heat = transientHeatEnergy THEN ticks
                 ELSE Min2(ticks + 1, MaxTicks)
     /\ last' = [op |-> "animate", requests |-> sc.requests, added |-> sc.added,
                 checked |-> Range(sc.bonds),
                 dist |-> [p \in {{r[1], r[2]} : r \in sc.requests}
                                 \cup {{b.atomA, b.atomB} : b \in Range(sc.bonds)}
                           |-> d[p]],
                 scanned |-> sc.scanned,
                 systemEnergy |-> IF sc.scanned THEN heat + k ELSE 0,
                 evaluated |-> evaluatedPairsM(sc.scanned, d)]
     /\ UNCHANGED <<atoms, nextId, molecules, discoveredMolecules, uiVarsM, simVars>>

\* the pairs whose distance the frame reads: the two ends of every bond, and,
\* when the scan runs, every pair of free atoms it does not skip before it
\* measures
ReadPairsM(due) ==
  {{bonds[i].atomA, bonds[i].atomB} : i \in DOMAIN bonds}
  \cup (IF reactionInProgress \/ isPaused
            \/ ~autoReactions(currentSimulationMode) \/ ~due
         THEN {}
         ELSE {p \in PairsOf(AtomIds) :
                 /\ \A id \in p : ~IsMemberId(atoms, id)
                 /\ p \notin bondingCooldowns})

AnimateM ==
  \E due \in BOOLEAN :
     \E d \in DistChoices(ReadPairsM(due)),
        k \in (IF due THEN KineticChoices(atoms) ELSE {0}) :
        animateM(d, k, due)

\* a pending setTimeout(() => this.identifyMolecules(), 100) fires
IdentifyTimerM ==
  /\ identifyTimers > 0
  /\ LET st == identifyMoleculesM(Core)
     IN /\ atoms' = st.atoms
        /\ bonds' = st.bonds
        /\ molecules' = st.molecules
        /\ discoveredMolecules' = st.discoveredMolecules
  /\ identifyTimers' = identifyTimers - 1
  /\ last' = NoHistory("identifyTimer")
  /\ UNCHANGED <<nextId, transientHeatEnergy, bondingCooldowns, uiVarsM, simVars, ticks>>

\* the 2000 ms window of a cooldown key elapses
CooldownElapsedM ==
  \E key \in bondingCooldowns :
     /\ bondingCooldowns' = bondingCooldowns \ {key}
     /\ last' = NoHistory("other")
     /\ UNCHANGED <<coreVars, transientHeatEnergy, identifyTimers, uiVarsM, simVars, ticks>>

\* createManualBond on the two selected atoms; k is the kinetic term of the
\* system energy at that moment
createManualBond(atomA, atomB, k) ==
  LET request == {<<atomA.id, atomB.id>>}
      rejected ==
        \/ bondExists(bonds, atomA.id, atomB.id)
        \/ countAtomBonds(bonds, atomA.id) >= maxBondsM(atomA.protons)
        \/ countAtomBonds(bonds, atomB.id) >= maxBondsM(atomB.protons)
      st == identifyMoleculesM([Core EXCEPT
                !.bonds = createBondM(bonds, atomA.id, atomB.id)])
  IN IF rejected
     THEN /\ last' = [NoHistory("createManualBond") EXCEPT !.requests = request]
          /\ UNCHANGED <<atoms, bonds, molecules, discoveredMolecules, identifyTimers>>
     ELSE /\ identifyTimers < MaxPending
          /\ atoms' = st.atoms
          /\ bonds' = st.bonds
          /\ molecules' = st.molecules
          /\ discoveredMolecules' = st.discoveredMolecules
          /\ identifyTimers' = identifyTimers + 1
          /\ last' = [NoHistory("createManualBond") EXCEPT
                        !.requests = request,
                        !.systemEnergy = transientHeatEnergy + k,
                        !.added = {[atomA |-> atomA.id, atomB |-> atomB.id,
                                    allowed |-> canFormBond(atomA, atomB,
                                       transientHeatEnergy + k)]}]

\* a click on an atom body while manualBondingMode is on
handleManualBondSelection(id, k) ==
  LET atom == AtomOf(atoms, id)
      selected == selectedAtomsForBonding
      toggled == IF id \in Range(selected)
                 THEN SelectSeq(selected, LAMBDA x : x # id)
                 ELSE IF Len(selected) < 2 THEN Append(selected, id)
                 ELSE selected
  IN /\ manualBondingMode
     /\ id \in AtomIds
     /\ IF atom.isMoleculeMember
        THEN /\ last' = NoHistory("other")
             /\ UNCHANGED <<atoms, bonds, molecules, discoveredMolecules,
                            identifyTimers, selectedAtomsForBonding>>
        ELSE IF Len(toggled) = 2
        THEN /\ createManualBond(AtomOf(atoms, toggled[1]),
                                 AtomOf(atoms, toggled[2]), k)
             /\ selectedAtomsForBonding' = <<>>
        ELSE /\ selectedAtomsForBonding' = toggled
             /\ last' = NoHistory("other")
             /\ UNCHANGED <<atoms, bonds, molecules, discoveredMolecules, identifyTimers>>
     /\ UNCHANGED <<nextId, transientHeatEnergy, bondingCooldowns, isPaused,
                    currentSimulationMode, manualBondingMode, selectedAtom,
                    simVars, ticks>>

HandleManualBondSelection ==
  \E id \in AtomIds, k \in KineticChoices(atoms) : handleManualBondSelection(id, k)

toggleManualBondingMode ==
  /\ manualBondingMode' = ~manualBondingMode
  /\ selectedAtomsForBonding' =
       IF manualBondingMode THEN <<>> ELSE selectedAtomsForBonding
  /\ last' = NoHistory("other")
  /\ UNCHANGED <<coreVars, transientHeatEnergy, bondingCooldowns, identifyTimers,
                 isPaused, currentSimulationMode, selectedAtom, simVars, ticks>>

\* addSystemEnergy(amount): the sum is capped at 100 and has no lower cap
addSystemEnergy(amount) ==
  /\ transientHeatEnergy' = Min2(Hundredths(10000), transientHeatEnergy + amount)
  /\ ticks' = 0
  /\ last' = NoHistory("addSystemEnergy")
  /\ UNCHANGED <<coreVars, bondingCooldowns, identifyTimers, uiVarsM, simVars>>

resetSystemEnergy ==
  /\ transientHeatEnergy' = 0
  /\ ticks' = 0
  /\ last' = NoHistory("other")
  /\ UNCHANGED <<coreVars, bondingCooldowns, identifyTimers, uiVarsM, simVars>>

togglePause ==
  /\ isPaused' = ~isPaused
  /\ last' = NoHistory("other")
  /\ UNCHANGED <<coreVars, transientHeatEnergy, bondingCooldowns, identifyTimers,
                 currentSimulationMode, manualBondingMode,
                 selectedAtomsForBonding, selectedAtom, simVars, ticks>>

onModeChanged(mode) ==
  /\ currentSimulationMode' = mode
  /\ last' = NoHistory("other")
  /\ UNCHANGED <<coreVars, transientHeatEnergy, bondingCooldowns, identifyTimers,
                 isPaused, manualBondingMode, selectedAtomsForBonding,
                 selectedAtom, simVars, ticks>>

\* the neutrons of the elements of PeriodicTableComponent.elements, hydrogen
\* to neon, in the order of their atomic numbers
elementNeutrons(protons) == <<0, 2, 4, 5, 6, 6, 7, 8, 10, 10>>[protons]

\* an atom that takes the number of atoms on the list for its id
buildAtomCounted(protons, neutrons) ==
  [id |-> Len(atoms), protons |-> protons, neutrons |-> neutrons,
   isMoleculeMember |-> FALSE]

\* buildAtom: the new atom takes this.nextId++ and is free
buildAtom(protons, neutrons) ==
  [id |-> nextId, protons |-> protons, neutrons |-> neutrons,
   isMoleculeMember |-> FALSE]

\* selectAtom(atom), the same in both components: the atom is the selected
\* one.  The canvas handlers call it on the atom under the pointer.
selectAtom(id) ==
  /\ id \in AtomIds
  /\ selectedAtom' = id
  /\ last' = NoHistory("other")
  /\ UNCHANGED <<coreVars, transientHeatEnergy, bondingCooldowns, identifyTimers,
                 isPaused, currentSimulationMode, manualBondingMode,
                 selectedAtomsForBonding, simVars, ticks>>

\* selectMolecule on a molecule of the list: no atom is selected any more
selectMolecule ==
  /\ molecules # <<>>
  /\ selectedAtom' = -1
  /\ last' = NoHistory("other")
  /\ UNCHANGED <<coreVars, transientHeatEnergy, bondingCooldowns, identifyTimers,
                 isPaused, currentSimulationMode, manualBondingMode,
                 selectedAtomsForBonding, simVars, ticks>>

\* onElementSelect: createAtom at a random place, and the new atom is selected
onElementSelectM(protons) ==
  /\ Len(atoms) < MaxAtoms
  /\ nextId < MaxId
  /\ atoms' = Append(atoms, buildAtom(protons, elementNeutrons(protons)))
  /\ nextId' = nextId + 1
  /\ selectedAtom' = nextId
  /\ last' = NoHistory("other")
  /\ UNCHANGED <<bonds, molecules, discoveredMolecules, transientHeatEnergy,
                 bondingCooldowns, identifyTimers, isPaused, currentSimulationMode,
                 manualBondingMode, selectedAtomsForBonding, simVars, ticks>>

\* breakMolecule: the molecule leaves the list and its atoms are free again
breakMoleculeM(m, st) ==
  [st EXCEPT
     !.molecules = SelectSeq(st.molecules, LAMBDA x : x.id # m.id),
     !.atoms = [i \in DOMAIN st.atoms |->
                  IF st.atoms[i].id \in Range(m.atoms)
                  THEN [st.atoms[i] EXCEPT !.isMoleculeMember = FALSE]
                  ELSE st.atoms[i]]]

deleteAtomM(id) ==
  LET owners == {i \in DOMAIN molecules : id \in Range(molecules[i].atoms)}
      \* Array.prototype.find: the first molecule that holds the atom
      st1 == IF owners = {} THEN Core
             ELSE breakMoleculeM(
                    molecules[CHOOSE i \in owners : \A j \in owners : i <= j], Core)
      st2 == [st1 EXCEPT
                !.atoms = SelectSeq(st1.atoms, LAMBDA a : a.id # id),
                !.bonds = SelectSeq(st1.bonds,
                            LAMBDA b : b.atomA # id /\ b.atomB # id)]
      st3 == identifyMoleculesM(st2)
  IN /\ id \in AtomIds
     /\ atoms' = st3.atoms
     /\ bonds' = st3.bonds
     /\ molecules' = st3.molecules
     /\ discoveredMolecules' = st3.discoveredMolecules
     /\ selectedAtom' = IF selectedAtom = id THEN firstAtomOrNull(st2.atoms)
                        ELSE selectedAtom
     /\ selectedAtomsForBonding' =
          SelectSeq(selectedAtomsForBonding, LAMBDA x : x # id)
     /\ last' = Deleted(id)
     /\ UNCHANGED <<nextId, transientHeatEnergy, bondingCooldowns, identifyTimers,
                    isPaused, currentSimulationMode, manualBondingMode, simVars,
                    ticks>>

DeleteAtomM == \E id \in AtomIds : deleteAtomM(id)

\* resetSimulation: the heat is 0 again; atoms and molecules stop
resetSimulation ==
  /\ transientHeatEnergy' = 0
  /\ ticks' = 0
  /\ last' = NoHistory("resetSimulation")
  /\ UNCHANGED <<coreVars, bondingCooldowns, identifyTimers, uiVarsM, simVars>>

\* the four collections after clearAllAtoms; nextId and the registry stay
clearedAtoms ==
  /\ bonds' = <<>>
  /\ molecules' = <<>>
  /\ selectedAtomsForBonding' = <<>>
  /\ selectedAtom' = -1
  /\ UNCHANGED <<discoveredMolecules, transientHeatEnergy, bondingCooldowns,
                 identifyTimers, isPaused, currentSimulationMode, manualBondingMode,
                 simVars, ticks>>

\* clearAllAtoms
clearAllAtoms ==
  /\ atoms' = <<>>
  /\ clearedAtoms
  /\ last' = NoHistory("clearAllAtoms")
  /\ UNCHANGED nextId

\* MOLECULAR_RECIPES: the id, the reactants and the heat intensity of the
\* conditions of each recipe of the catalog
MOLECULAR_RECIPES ==
  << [id |-> "water",
      reactants |-> << [element |-> "H₂", count |-> 2, atomicNumber |-> 1],
                       [element |-> "O₂", count |-> 1, atomicNumber |-> 8] >>,
      conditions |-> [heatIntensity |-> 8]],
     [id |-> "carbon_dioxide",
      reactants |-> << [element |-> "C", count |-> 1, atomicNumber |-> 6],
                       [element |-> "O₂", count |-> 1, atomicNumber |-> 8] >>,
      conditions |-> [heatIntensity |-> 15]],
     [id |-> "methane",
      reactants |-> << [element |-> "C", count |-> 1, atomicNumber |-> 6],
                       [element |-> "H₂", count |-> 2, atomicNumber |-> 1] >>,
      conditions |-> [heatIntensity |-> 12]],
     [id |-> "ammonia",
      reactants |-> << [element |-> "N₂", count |-> 1, atomicNumber |-> 7],
                       [element |-> "H₂", count |-> 3, atomicNumber |-> 1] >>,
      conditions |-> [heatIntensity |-> 20]],
     [id |-> "hydrogen_gas",
      reactants |-> << [element |-> "H", count |-> 2, atomicNumber |-> 1] >>,
      conditions |-> [heatIntensity |-> 3]],
     [id |-> "oxygen_gas",
      reactants |-> << [element |-> "O", count |-> 2, atomicNumber |-> 8] >>,
      conditions |-> [heatIntensity |-> 5]] >>

\* the recipes the catalog hands to onRecipeSelected and onCreateReactants
RecipeChoices == Range(MOLECULAR_RECIPES)

\* the recipe selected between the pulses and the reactions of SpecReactS:
\* water, whose pulse of 24 is just over the 20 a reaction needs
ReactRecipeChoices == {recipe \in RecipeChoices : recipe.id = "water"}

\* the reactant elements of MOLECULAR_RECIPES whose symbol includes the
\* subscript two: onCreateReactants makes two atoms for each
DiatomicElements == {"H₂", "O₂", "N₂"}

RECURSIVE reactantElements(_)
\* the atomic numbers onCreateReactants creates atoms for, in order: for each
\* reactant, count times one atom, or two atoms of a diatomic element
reactantElements(reactants) ==
  IF reactants = <<>> THEN <<>>
  ELSE LET reactant == Head(reactants)
           perUnit == IF reactant.element \in DiatomicElements THEN 2 ELSE 1
       IN [i \in 1..(reactant.count * perUnit) |-> reactant.atomicNumber]
          \o reactantElements(Tail(reactants))

\* EXPERIMENT_PRESETS 'h2': two atoms of hydrogen
ExperimentChoices == {<< [element |-> 1, count |-> 2] >>}

RECURSIVE experimentElements(_)
\* the atomic numbers loadExperimentAtoms creates atoms for, in order
experimentElements(experimentAtoms) ==
  IF experimentAtoms = <<>> THEN <<>>
  ELSE [i \in 1..Head(experimentAtoms).count |-> Head(experimentAtoms).element]
       \o experimentElements(Tail(experimentAtoms))

\* loadExperimentAtoms: clearAllAtoms, then createAtom for each atom of the
\* preset, each with this.nextId++
loadExperimentAtoms(experimentAtoms) ==
  \E elements \in {experimentElements(experimentAtoms)} :
     /\ nextId + Len(elements) <= MaxLoadedId
     /\ atoms' = [i \in DOMAIN elements |->
                    [id |-> nextId + i - 1, protons |-> elements[i],
                     neutrons |-> elements[i], isMoleculeMember |-> FALSE]]
     /\ nextId' = nextId + Len(elements)
     /\ clearedAtoms
     /\ last' = NoHistory("loadExperimentAtoms")

\* onCreateReactants of molecular-recipes.interface.ts: clearAllAtoms, then
\* createAtom for each atom of the recipe's reactants, each with
\* this.nextId++ and as many neutrons as protons
onCreateReactants(recipe) ==
  \E elements \in {reactantElements(recipe.reactants)} :
     /\ atoms' = [i \in DOMAIN elements |->
                    [id |-> nextId + i - 1, protons |-> elements[i],
                     neutrons |-> elements[i], isMoleculeMember |-> FALSE]]
     /\ nextId' = nextId + Len(elements)
     /\ clearedAtoms
     /\ last' = NoHistory("onCreateReactants")

\* loadFontAndStart: two hydrogen atoms at (3, 0, 0) and (-3, 0, 0), the
\* educational mode, nothing else
InitM ==
  /\ atoms = << [id |-> 0, protons |-> 1, neutrons |-> 0, isMoleculeMember |-> FALSE],
                [id |-> 1, protons |-> 1, neutrons |-> 0, isMoleculeMember |-> FALSE] >>
  /\ nextId = 2
  /\ bonds = <<>>
  /\ molecules = <<>>
  /\ discoveredMolecules = <<>>
  /\ transientHeatEnergy = 0
  /\ bondingCooldowns = {}
  /\ identifyTimers = 0
  /\ isPaused = FALSE
  /\ currentSimulationMode = "educational"
  /\ manualBondingMode = FALSE
  /\ selectedAtomsForBonding = <<>>
  /\ selectedAtom = firstAtomOrNull(atoms)
  /\ reactionInProgress = FALSE
  /\ bondingTransitions = {}
  /\ timers = {}
  /\ identifyOrigins = <<>>
  /\ brokenMolecule = NoMolecule
  /\ bodiesPlaced = FALSE
  /\ heatIntensity = 5
  /\ removedAtoms = <<>>
  /\ component = "mode"
  /\ ticks = 0
  /\ last = NoHistory("init")

SimulationModes == {"sandbox", "educational", "realistic"}

\* ------------------------------------------------------------------------
\* simulation.component.ts
\* ------------------------------------------------------------------------
\* this.electronegativity[protons] || 2.0
electronegativityS(protons) ==
  CASE protons = 1 -> 220 [] protons = 6 -> 255 [] protons = 7 -> 304
    [] protons = 8 -> 344 [] protons = 9 -> 398 [] OTHER -> 200

\* this.valenceElectrons[protons] || 4
valenceElectronsS(protons) ==
  CASE protons = 1 -> 1 [] protons = 6 -> 4 [] protons = 7 -> 5
    [] protons = 8 -> 6 [] protons = 9 -> 7 [] OTHER -> 4

\* max(1, max(2, 10 - 2 * diff) - 0.5 * valenceBonus), computed in hundredths
getMinimumActivationEnergy(atomA, atomB) ==
  LET electronegativityDiff ==
        Abs(electronegativityS(atomA.protons) - electronegativityS(atomB.protons))
      baseEnergy == Max2(200, 1000 - 2 * electronegativityDiff)
      valenceBonus == (8 - valenceElectronsS(atomA.protons))
                      + (8 - valenceElectronsS(atomB.protons))
  IN Hundredths(Max2(100, baseEnergy - 50 * valenceBonus))

RECURSIVE totalValenceElectrons(_)
totalValenceElectrons(atomList) ==
  IF atomList = <<>> THEN 0
  ELSE valenceElectronsS(Head(atomList).protons) + totalValenceElectrons(Tail(atomList))

followsValenceRules(atomList) ==
  LET expectedBonds == totalValenceElectrons(atomList) \div 2
      maxPossibleBonds == (Len(atomList) * (Len(atomList) - 1)) \div 2
  IN expectedBonds <= maxPossibleBonds /\ Len(atomList) <= 6

isChemicallyStable(atomList) ==
  LET h == CountOf(atomList, 1)
      c == CountOf(atomList, 6)
      n == CountOf(atomList, 7)
      o == CountOf(atomList, 8)
      f == CountOf(atomList, 9)
      len == Len(atomList)
  IN IF \/ (c = 1 /\ o = 2 /\ len = 3) \/ (c = 1 /\ h = 4 /\ len = 5)
        \/ (o = 1 /\ h = 2 /\ len = 3) \/ (n = 1 /\ h = 3 /\ len = 4)
        \/ (h = 2 /\ len = 2) \/ (o = 2 /\ len = 2) \/ (n = 2 /\ len = 2)
        \/ (c = 1 /\ o = 1 /\ len = 2) \/ (n = 1 /\ o = 1 /\ len = 2)
        \/ (h = 1 /\ f = 1 /\ len = 2)
     THEN TRUE
     ELSE IF len >= 2 /\ len <= 6 THEN followsValenceRules(atomList)
     ELSE FALSE

\* String.prototype.includes on a molecule name, for the three needles the
\* component looks for.  The names that hold them are the names of the recipe
\* table; a name made by generateSystematicName has the element names in
\* lower case and a formula of element symbols, and holds none of them.
includes(name, needle) ==
  CASE needle = "Hydrogen Gas" -> name = "Hydrogen Gas (H₂)"
    [] needle = "Oxygen Gas" -> name = "Oxygen Gas (O₂)"
    [] needle = "Oxygen" -> name = "Oxygen Gas (O₂)"
    [] OTHER -> FALSE

\* the molecules attemptMoleculeMoleculeReactions and
\* checkOtherMoleculeMoleculeReactions take as hydrogen gas
h2Molecules(moleculeList) ==
  SelectSeq(moleculeList, LAMBDA m : includes(m.name, "Hydrogen Gas"))

calculateAtomMoleculeActivationEnergy(atom, molecule) ==
  IF atom.protons = 6 /\ includes(molecule.name, "Oxygen Gas")
  THEN Hundredths(1500)
  ELSE IF atom.protons = 1 /\ includes(molecule.name, "Oxygen")
  THEN Hundredths(800)
  ELSE Hundredths(1000 + Len(molecule.atoms) * 300)

canAtomJoinMolecule(atom, molecule, atomList, systemEnergy) ==
  /\ isChemicallyStable(<<atom>> \o ComponentAtoms(atomList, molecule.atoms))
  /\ systemEnergy >= calculateAtomMoleculeActivationEnergy(atom, molecule)

\* createBond without its duplicate check
createBondUnchecked(bondList, a, b) ==
  Append(bondList, [atomA |-> a, atomB |-> b])

\* createBond(atomA, atomB, true): the duplicate check in both orders of the
\* id, then the push; the energy check and identifyMolecules are skipped
createBondS(bondList, a, b) ==
  IF \E i \in DOMAIN bondList :
        \/ (bondList[i].atomA = a /\ bondList[i].atomB = b)
        \/ (bondList[i].atomA = b /\ bondList[i].atomB = a)
  THEN bondList
  ELSE Append(bondList, [atomA |-> a, atomB |-> b])

\* isMoleculeMember = false on the listed atoms
freed(atomList, ids) ==
  [i \in DOMAIN atomList |->
     IF atomList[i].id \in Range(ids)
     THEN [atomList[i] EXCEPT !.isMoleculeMember = FALSE]
     ELSE atomList[i]]

\* breakMolecule of simulation.component.ts: the molecule leaves the list and
\* every atom object it holds is free again, the deleted ones included;
\* addTemporaryBondBlock only logs
breakMoleculeS(m, st) ==
  [st EXCEPT
     !.molecules = SelectSeq(st.molecules, LAMBDA x : x.id # m.id),
     !.atoms = freed(@, m.atoms),
     !.removed = freed(@, m.atoms)]

\* the atoms the forEach of createAdvancedMolecule gets through: all of them
\* when relativePositions has a position for each, those before the first
\* without one otherwise
placedBefore(connectedComponent, relativePositions) ==
  CHOOSE n \in 0..Len(connectedComponent) :
     /\ \A i \in 1..n : connectedComponent[i] \in relativePositions
     /\ n < Len(connectedComponent)
          => connectedComponent[n + 1] \notin relativePositions

\* isMoleculeMember = true on the atom objects of the listed ids, the deleted
\* ones included
markedMembers(st, inside) ==
  [st EXCEPT
     !.atoms = [i \in DOMAIN st.atoms |->
                  IF st.atoms[i].id \in inside
                  THEN [st.atoms[i] EXCEPT !.isMoleculeMember = TRUE]
                  ELSE st.atoms[i]],
     !.removed = [i \in DOMAIN st.removed |->
                  IF st.removed[i].id \in inside
                  THEN [st.removed[i] EXCEPT !.isMoleculeMember = TRUE]
                  ELSE st.removed[i]]]

\* createAdvancedMolecule and the push that follows it.  The forEach over the
\* atoms marks them members one by one and reads relativePositions.get(a.id)
\* of each: at the first atom calculateMolecularPositions has no position for
\* it throws a TypeError, with the atoms before it marked, no bond removed
\* and no molecule made
createAdvancedMolecule(moleculeId, structure, connectedComponent, st) ==
  CHOOSE after \in
    {IF reached < Len(connectedComponent)
     THEN [markedMembers(st, {connectedComponent[i] : i \in 1..reached})
             EXCEPT !.thrown = TRUE]
     ELSE [markedMembers(st, Range(connectedComponent)) EXCEPT
             !.bonds = SelectSeq(st.bonds,
                          LAMBDA b : ~(b.atomA \in Range(connectedComponent)
                                       /\ b.atomB \in Range(connectedComponent))),
             !.molecules = Append(st.molecules,
                          [id |-> moleculeId, name |-> structure.name,
                           atoms |-> connectedComponent,
                           geometry |-> structure.geometry])] :
       reached \in
         {placedBefore(connectedComponent, relativePositions) :
            relativePositions \in
              {calculateMolecularPositions(
                 ComponentAtoms(st.atoms \o st.removed, connectedComponent),
                 structure.geometry)}}} : TRUE

RECURSIVE identifyFromS(_, _, _)
\* the "for (const atom of this.atoms)" loop of identifyMolecules, from index k
identifyFromS(k, checkedAtoms, st) ==
  IF k > Len(st.atoms) \/ st.thrown THEN st
  ELSE IF st.atoms[k].id \in checkedAtoms \/ st.atoms[k].isMoleculeMember
       THEN identifyFromS(k + 1, checkedAtoms, st)
  ELSE LET t == traverse(<<st.atoms[k].id>>, checkedAtoms \cup {st.atoms[k].id},
                         <<>>, st.atoms \o st.removed, st.bonds)
           connectedComponent ==
             ComponentAtoms(st.atoms \o st.removed, t.connectedComponent)
           bondingStructure == calculateOptimalBondingStructure(connectedComponent)
           systematicName == generateSystematicName(connectedComponent)
           geometry == determineGeometry(connectedComponent, bondingStructure.bonds,
                                         bondingStructure.centralAtom)
           moleculeId == moleculeIdOf(t.connectedComponent)
           st1 == [st EXCEPT !.discoveredMolecules = discover(@, systematicName)]
           existingMolecule ==
             \E m \in DOMAIN st.molecules : st.molecules[m].id = moleculeId
       IN identifyFromS(k + 1, t.checkedAtoms,
            IF Len(t.connectedComponent) < 2 THEN st
            ELSE IF existingMolecule THEN st1
            ELSE createAdvancedMolecule(moleculeId,
                   [name |-> systematicName, geometry |-> geometry],
                   t.connectedComponent, st1))

identifyMoleculesS(st) == identifyFromS(1, {}, st)

shouldFormBondS(atomA, atomB, systemEnergy, atomList, d) ==
  IF ~canFormBond(atomA, atomB, systemEnergy) THEN FALSE
  ELSE IF /\ atomA.protons = 1 /\ atomB.protons = 1
          /\ \E i \in DOMAIN atomList :
                /\ atomList[i].protons = 8
                /\ ~atomList[i].isMoleculeMember
                /\ \/ d[{atomList[i].id, atomA.id}] < 500
                   \/ d[{atomList[i].id, atomB.id}] < 500
       THEN FALSE
  ELSE IF /\ atomA.protons = 8 /\ atomB.protons = 8
          /\ \E i \in DOMAIN atomList :
                /\ atomList[i].protons # 8
                /\ ~atomList[i].isMoleculeMember
                /\ \/ d[{atomList[i].id, atomA.id}] < 500
                   \/ d[{atomList[i].id, atomB.id}] < 500
       THEN FALSE
  ELSE TRUE

\* checkAndCreateBonds; due is the outcome of the bondCheckInterval throttle.
\* Nothing the double loop reads is written inside it (a pair writes its own
\* cooldown key and its own transition), so the pairs that pass are a set:
\* each gets its cooldown and goes to initiateGradualBonding, which keeps a
\* transition that is already there.
checkAndCreateBondsS(due, d, systemEnergy) ==
  IF reactionInProgress \/ ~due
  THEN [cooldowns |-> bondingCooldowns, transitions |-> bondingTransitions,
        scanned |-> FALSE]
  ELSE LET passed ==
             {ij \in Range(IndexPairs(1, 2, Len(atoms))) :
                /\ ~atoms[ij[1]].isMoleculeMember
                /\ ~atoms[ij[2]].isMoleculeMember
                /\ ~bondExists(bonds, atoms[ij[1]].id, atoms[ij[2]].id)
                /\ cooldownKey(atoms[ij[1]].id, atoms[ij[2]].id) \notin bondingCooldowns
                /\ d[{atoms[ij[1]].id, atoms[ij[2]].id}] < 350
                /\ shouldFormBondS(atoms[ij[1]], atoms[ij[2]], systemEnergy, atoms, d)}
       IN [cooldowns |-> bondingCooldowns
                         \cup {cooldownKey(atoms[ij[1]].id, atoms[ij[2]].id) : ij \in passed},
           transitions |-> bondingTransitions
                         \cup {<<atoms[ij[1]].id, atoms[ij[2]].id>> : ij \in passed},
           scanned |-> TRUE]

NoReaction == [kind |-> "none", atoms |-> <<>>, molecule |-> 0]

RECURSIVE multiAtomFrom(_, _, _, _)
\* the loops of attemptMultiAtomCombinations over the pairs (i, j) of free
\* atoms still to visit: the first combination found ends the search
multiAtomFrom(pairs, freeAtoms, d, systemEnergy) ==
  IF pairs = <<>> THEN NoReaction
  ELSE LET atomA == freeAtoms[Head(pairs)[1]]
           atomB == freeAtoms[Head(pairs)[2]]
           close == d[{atomA.id, atomB.id}] < 600
           thirds == {k \in (Head(pairs)[2] + 1)..Len(freeAtoms) :
                        /\ d[{atomA.id, freeAtoms[k].id}] < 600
                        /\ d[{atomB.id, freeAtoms[k].id}] < 600
                        /\ isChemicallyStable(<<atomA, atomB, freeAtoms[k]>>)
                        /\ systemEnergy >= Hundredths(2000)}
       IN IF close /\ isChemicallyStable(<<atomA, atomB>>)
             /\ systemEnergy >= getMinimumActivationEnergy(atomA, atomB)
          THEN [kind |-> "twoAtom", atoms |-> <<atomA.id, atomB.id>>, molecule |-> 0]
          ELSE IF close /\ thirds # {}
          THEN [kind |-> "threeAtom",
                atoms |-> <<atomA.id, atomB.id,
                            freeAtoms[CHOOSE k \in thirds : \A x \in thirds : k <= x].id>>,
                molecule |-> 0]
          ELSE multiAtomFrom(Tail(pairs), freeAtoms, d, systemEnergy)

attemptMultiAtomCombinations(atomList, d, systemEnergy) ==
  LET freeAtoms == SelectSeq(atomList, LAMBDA a : ~a.isMoleculeMember)
  IN multiAtomFrom(IndexPairs(1, 2, Len(freeAtoms)), freeAtoms, d, systemEnergy)

\* attemptAtomMoleculeCombinations: the first free atom and molecule, in the
\* order of the two lists, that are near and can join; without one, the
\* multi-atom combinations.  near holds the pairs <<atom id, molecule id>>
\* closer than 8.
attemptAtomMoleculeCombinations(near, d, systemEnergy) ==
  LET candidates ==
        {im \in (DOMAIN atoms) \X (DOMAIN molecules) :
           /\ ~atoms[im[1]].isMoleculeMember
           /\ <<atoms[im[1]].id, molecules[im[2]].id>> \in near
           /\ canAtomJoinMolecule(atoms[im[1]], molecules[im[2]], Heap, systemEnergy)}
      first == CHOOSE im \in candidates :
                 \A x \in candidates :
                    im[1] < x[1] \/ (im[1] = x[1] /\ im[2] <= x[2])
  IN IF candidates # {}
     THEN [kind |-> "atomMolecule",
           atoms |-> <<atoms[first[1]].id>> \o molecules[first[2]].atoms,
           molecule |-> first[2]]
     ELSE attemptMultiAtomCombinations(atoms, d, systemEnergy)

\* attemptMolecularReactions on the heat the frame has left: without two
\* molecules of hydrogen gas attemptMoleculeMoleculeReactions does nothing,
\* and attemptComplexMolecularFormation goes on to the atoms
attemptMolecularReactions(heat, k, near, d) ==
  IF reactionInProgress \/ heat <= Hundredths(2000) THEN NoReaction
  ELSE attemptAtomMoleculeCombinations(near, d, heat + k)

\* (radiusA + radiusB) * 3.0
maxBondLengthS(atomList, bond) ==
  (atomicRadiiS(AtomOf(atomList, bond.atomA).protons)
   + atomicRadiiS(AtomOf(atomList, bond.atomB).protons)) * 3

\* the pairs of radii whose (radiusA + radiusB) * 3.0 is, as a double, one
\* rounding step under its decimal value: 0.37 + 0.37 gives
\* 2.2199999999999998, 0.73 + 1.0 gives 5.1899999999999995
maxBondLengthRoundedDownS == {{37}, {71, 77}, {73, 75}, {73, 100}}

\* distance > maxBondLength on the doubles of the program
longerThanMaxS(atomList, bond, distance) ==
  \/ distance > maxBondLengthS(atomList, bond)
  \/ /\ distance = maxBondLengthS(atomList, bond)
     /\ {atomicRadiiS(AtomOf(atomList, bond.atomA).protons),
         atomicRadiiS(AtomOf(atomList, bond.atomB).protons)}
           \in maxBondLengthRoundedDownS

\* the bonds updateBondVisuals finds longer than their maxBondLength
bondsToRemoveS(bondList, atomList, d) ==
  {i \in DOMAIN bondList :
     longerThanMaxS(atomList, bondList[i],
                    d[{bondList[i].atomA, bondList[i].atomB}])}

\* this.reactionInProgress = true at the start of
\* performGenericAtomMoleculeReaction and of createOptimalMolecularStructure
reactionInProgressAfter(reaction) ==
  reactionInProgress \/ reaction.kind \in {"atomMolecule", "threeAtom"}

\* the distances updateBondVisuals finds between the two ends of each bond at
\* the end of a frame whose physics step left them at d.  A three-atom combination has called
\* createOptimalMolecularStructure, which leaves the first atom where it is
\* and puts the two others on a circle of radius 1.5 around it, opposite each
\* other: 1.5 from the first and 3.0 from one another.  addAtomToMolecule has
\* put its atom at a random place near the molecule.  A pair with one atom
\* that was moved can be at any distance.
distancesAfterS(reaction, d) ==
  IF reaction.kind \notin {"threeAtom", "atomMolecule"} THEN {d}
  ELSE
    LET placed == IF reaction.kind = "threeAtom" THEN Range(reaction.atoms) ELSE {}
        moved == CASE reaction.kind = "threeAtom" -> Range(Tail(reaction.atoms))
                   [] reaction.kind = "atomMolecule" -> {reaction.atoms[1]}
                   [] OTHER -> {}
        onCircle == {p \in DOMAIN d : Cardinality(p) = 2 /\ p \subseteq placed}
        anywhere == {p \in DOMAIN d \ onCircle :
                       Cardinality(p) = 2 /\ p \cap moved # {}}
    IN {[p \in DOMAIN d |->
           IF p \in onCircle
           THEN IF reaction.atoms[1] \in p THEN 150 ELSE 300
           ELSE IF p \in anywhere THEN measured[p] ELSE d[p]] :
          measured \in DistChoices(anywhere)}

\* One frame of animate.  The physics step leaves the bodies at distances d,
\* the free atoms and the molecules at the pairs near, and the kinetic term of
\* the system energy at k; due is the outcome of the throttle of the scan.
\* A two-atom combination is found twice in the frame, by the call at the end
\* of attemptAtomMoleculeCombinations and by the call that follows it in
\* attemptComplexMolecularFormation: the second createBond returns at the
\* duplicate check, and each call sets its identifyMolecules timer.
animateS(d, k, due, near) ==
  \E heat \in {decayS(transientHeatEnergy)} :
  \E sc \in {checkAndCreateBondsS(due, d, heat + k)} :
  \E reaction \in {attemptMolecularReactions(heat, k, near, d)} :
  \E pushed \in {IF reaction.kind = "twoAtom"
                 THEN createBondS(bonds, reaction.atoms[1], reaction.atoms[2])
                 ELSE bonds} :
  \E after \in distancesAfterS(reaction,
                  [p \in {{b.atomA, b.atomB} : b \in Range(pushed)} |-> d[p]]) :
  \E gone \in {bondsToRemoveS(pushed, Heap, after)} :
  \E timersSet \in {(IF reaction.kind = "twoAtom" THEN 2 ELSE 0)
                    + (IF gone = {} THEN 0 ELSE 1)} :
     /\ Len(h2Molecules(molecules)) < 2
     /\ transientHeatEnergy > 0 => ticks < MaxTicks
     /\ identifyTimers + timersSet <= MaxPending
     /\ transientHeatEnergy' =
          IF reaction.kind = "atomMolecule"
          THEN Max2(0, heat - calculateAtomMoleculeActivationEnergy(
                                AtomOf(Heap, reaction.atoms[1]),
                                molecules[reaction.molecule]))
          ELSE heat
     /\ atoms' = IF reaction.kind \in {"atomMolecule", "threeAtom"}
                 THEN freed(atoms, reaction.atoms) ELSE atoms
     /\ molecules' =
          IF reaction.kind = "atomMolecule"
          THEN SelectSeq(molecules, LAMBDA m : m.id # molecules[reaction.molecule].id)
          ELSE molecules
     /\ reactionInProgress' = reactionInProgressAfter(reaction)
     /\ timers' =
          CASE reaction.kind = "atomMolecule" ->
                 timers \cup {[kind |-> "createOptimalMolecularStructure",
                               atoms |-> reaction.atoms]}
            [] reaction.kind = "threeAtom" ->
                 timers \cup {[kind |-> "createBonds", atoms |-> reaction.atoms]}
            [] OTHER -> timers
     /\ bodiesPlaced' = (reaction.kind = "threeAtom")
     /\ bonds' = SelectSeq(pushed, LAMBDA b : \A i \in gone : pushed[i] # b)
     /\ bondingCooldowns' = sc.cooldowns
     /\ bondingTransitions' = sc.transitions
     /\ identifyTimers' = identifyTimers + timersSet
     /\ identifyOrigins' =
          identifyOrigins
          \o (IF reaction.kind = "twoAtom"
              THEN <<reaction.atoms, reaction.atoms>> ELSE <<>>)
          \o (IF gone = {} THEN <<>> ELSE <<StressCheck>>)
     /\ ticks' = IF transientHeatEnergy > 0 THEN ticks + 1 ELSE ticks
     /\ last' = [op |-> "animate",
                 requests |-> IF reaction.kind = "twoAtom"
                              THEN {<<reaction.atoms[1], reaction.atoms[2]>>} ELSE {},
                 added |-> IF reaction.kind = "twoAtom" /\ pushed # bonds
                           THEN {[atomA |-> reaction.atoms[1],
                                  atomB |-> reaction.atoms[2],
                                  allowed |-> canFormBond(
                                     AtomOf(Heap, reaction.atoms[1]),
                                     AtomOf(Heap, reaction.atoms[2]), heat + k)]}
                           ELSE {},
                 checked |-> Range(pushed),
                 dist |-> [p \in {{b.atomA, b.atomB} : b \in Range(pushed)}
                           |-> after[p]],
                 scanned |-> FALSE,
                 systemEnergy |-> 0,
                 reaction |-> reaction.kind]
     /\ removedAtoms' = IF reaction.kind \in {"atomMolecule", "threeAtom"}
                        THEN freed(removedAtoms, reaction.atoms) ELSE removedAtoms
     /\ UNCHANGED <<nextId, discoveredMolecules, uiVarsM, heatIntensity, component,
                    brokenMolecule>>

\* the frame looks at the other bodies when the scan or the reactions run
LooksAroundS(due) ==
  \/ (due /\ ~reactionInProgress)
  \/ ReactionsRunS

\* the pairs whose distance the frame reads: the two ends of every bond, and,
\* when it looks around, every pair of free atoms
ReadPairsS(due) ==
  {{bonds[i].atomA, bonds[i].atomB} : i \in DOMAIN bonds}
  \cup (IF LooksAroundS(due)
        THEN PairsOf({id \in AtomIds : ~IsMemberId(atoms, id)})
        ELSE {})

\* the free atoms and molecules that can be closer than 8 when the reactions run
NearChoicesS ==
  IF ~reactionInProgress /\ decayS(transientHeatEnergy) > Hundredths(2000)
  THEN SUBSET ({id \in AtomIds : ~IsMemberId(atoms, id)}
               \X {molecules[m].id : m \in DOMAIN molecules})
  ELSE {{}}

AnimateS ==
  /\ Len(h2Molecules(molecules)) < 2
  /\ transientHeatEnergy > 0 => ticks < MaxTicks
  /\ \E due \in BOOLEAN :
        \E d \in DistChoices(ReadPairsS(due)),
           k \in (IF LooksAroundS(due) THEN KineticVals ELSE {0}),
           near \in NearChoicesS :
           animateS(d, k, due, near)

\* the 2000 ms of a gradual bond are over: the transition is deleted and
\* createBond(atomA, atomB, true) runs; k is the kinetic term of the system
\* energy at that moment
GradualBondCompleteS ==
  \E tr \in bondingTransitions, k \in KineticVals :
  \E pushed \in {createBondS(bonds, tr[1], tr[2])} :
     /\ bondingTransitions' = bondingTransitions \ {tr}
     /\ bonds' = pushed
     /\ last' = [NoHistory("gradualBond") EXCEPT
                   !.requests = {tr},
                   !.added = IF pushed # bonds
                             THEN {[atomA |-> tr[1], atomB |-> tr[2],
                                    allowed |-> canFormBond(AtomOf(Heap, tr[1]),
                                       AtomOf(Heap, tr[2]), transientHeatEnergy + k)]}
                             ELSE {}]
     /\ UNCHANGED <<atoms, nextId, molecules, discoveredMolecules,
                    transientHeatEnergy, bondingCooldowns, identifyTimers, uiVarsM,
                    reactionInProgress, timers, bodiesPlaced, heatIntensity,
                    component, removedAtoms, ticks, identifyOrigins, brokenMolecule>>

\* a pending setTimeout(() => this.identifyMolecules(), 100) fires: the
\* timers have the same delay, so the oldest one
IdentifyTimerS ==
  /\ identifyTimers > 0
  /\ \E st \in {identifyMoleculesS(Core)} :
        /\ atoms' = st.atoms
        /\ bonds' = st.bonds
        /\ molecules' = st.molecules
        /\ discoveredMolecules' = st.discoveredMolecules
        /\ removedAtoms' = st.removed
  /\ identifyTimers' = identifyTimers - 1
  /\ identifyOrigins' = Tail(identifyOrigins)
  /\ last' = NoHistory("identifyTimer")
  /\ UNCHANGED <<nextId, transientHeatEnergy, bondingCooldowns, uiVarsM,
                 reactionVars, ticks>>

\* the 1000 ms window of a cooldown key elapses
CooldownElapsedS ==
  \E key \in bondingCooldowns :
     /\ bondingCooldowns' = bondingCooldowns \ {key}
     /\ last' = NoHistory("other")
     /\ UNCHANGED <<coreVars, transientHeatEnergy, identifyTimers, uiVarsM, simVars, ticks>>

\* createOptimalMolecularStructure puts atoms[0] in the centre and the others
\* on a circle of radius 1.5 around it, at the angles (index - 1) * 2 pi /
\* (n - 1): the centre is 1.5 away from each of them, and two atoms of the
\* circle are closer than 3.0 unless they are opposite.  i and j count the
\* list from 1.
placedCloserThan3(n, i, j) == i = 1 \/ 2 * (j - i) # n - 1

\* Two opposite atoms of the circle are 3.0 apart in exact arithmetic.  The
\* program adds the doubles cos(angle) * 1.5 and sin(angle) * 1.5 to the
\* coordinates of the centre, and the distance of the two sums is 3.0 for
\* some centres and 2.999999999999999 for others: the pair is under 3.0 or
\* not, as the place of the centre has it.
placedOpposite(n, i, j) == i # 1 /\ 2 * (j - i) = n - 1

\* the index pairs the timer of createOptimalMolecularStructure can find
\* closer than 3.0, in the order of its loops.  While no physics step has run
\* since the atoms were placed they are where they were put; after a step
\* they are where the step left them, and any of the pairs of up to three
\* atoms can be closer than 3.0 while the others are not.
closePairChoices(atomIds) ==
  LET n == Len(atomIds)
      all == IndexPairs(1, 2, n)
  IN IF bodiesPlaced
     THEN {SelectSeq(all, LAMBDA ij : placedCloserThan3(n, ij[1], ij[2])
                                         \/ ij \in under) :
             under \in SUBSET {ij \in Range(all) : placedOpposite(n, ij[1], ij[2])}}
     ELSE {SelectSeq(all, LAMBDA ij : ij \in under) :
             under \in SUBSET Range(all)}

RECURSIVE createBondsS(_, _)
\* createBond(atoms[i], atoms[j], true) for each listed pair, in order
createBondsS(bondList, pairs) ==
  IF pairs = <<>> THEN bondList
  ELSE createBondsS(createBondS(bondList, Head(pairs)[1], Head(pairs)[2]),
                    Tail(pairs))

\* the setTimeout of addAtomToMolecule fires: createOptimalMolecularStructure
\* frees and places the atoms and sets the timer of its bonds
CreateOptimalTimerS ==
  \E t \in timers :
     /\ t.kind = "createOptimalMolecularStructure"
     /\ reactionInProgress' = TRUE
     /\ atoms' = freed(atoms, t.atoms)
     /\ removedAtoms' = freed(removedAtoms, t.atoms)
     /\ timers' = (timers \ {t}) \cup {[kind |-> "createBonds", atoms |-> t.atoms]}
     /\ bodiesPlaced' = TRUE
     /\ last' = NoHistory("other")
     /\ UNCHANGED <<nextId, bonds, molecules, discoveredMolecules,
                    transientHeatEnergy, bondingCooldowns, identifyTimers, uiVarsM,
                    bondingTransitions, heatIntensity, component, ticks,
                    identifyOrigins, brokenMolecule>>

\* the first setTimeout of createOptimalMolecularStructure fires: a bond for
\* every pair it finds closer than 3.0, 8 units of heat for each, and the
\* timer of the identification; k is the kinetic term of the system energy at
\* that moment
CreateBondsTimerS ==
  \E t \in {u \in timers : u.kind = "createBonds"}, k \in KineticVals :
  \E sel \in closePairChoices(t.atoms) :
  \E pairs \in {[x \in DOMAIN sel |-> <<t.atoms[sel[x][1]], t.atoms[sel[x][2]]>>]} :
  \E pushed \in {createBondsS(bonds, pairs)} :
     /\ t.kind = "createBonds"
     /\ bonds' = pushed
     /\ transientHeatEnergy' =
          Max2(0, transientHeatEnergy - Hundredths(800) * Len(pairs))
     /\ timers' = (timers \ {t}) \cup {[kind |-> "finish", atoms |-> t.atoms]}
     /\ bodiesPlaced' = FALSE
     /\ last' = [NoHistory("createOptimalMolecularStructure") EXCEPT
                   !.requests = Range(pairs),
                   !.added = {[atomA |-> b.atomA, atomB |-> b.atomB,
                               allowed |-> canFormBond(AtomOf(Heap, b.atomA),
                                  AtomOf(Heap, b.atomB), transientHeatEnergy + k)] :
                              b \in Range(pushed) \ Range(bonds)}]
     /\ UNCHANGED <<atoms, nextId, molecules, discoveredMolecules, bondingCooldowns,
                    identifyTimers, uiVarsM, reactionInProgress, bondingTransitions,
                    heatIntensity, component, removedAtoms, ticks,
                    identifyOrigins, brokenMolecule>>

\* the second setTimeout of createOptimalMolecularStructure fires:
\* identifyMolecules, and the reaction is over; when identifyMolecules throws
\* the callback ends before it has written reactionInProgress
FinishTimerS ==
  \E t \in timers :
  \E st \in {identifyMoleculesS(Core)} :
     /\ t.kind = "finish"
     /\ atoms' = st.atoms
     /\ bonds' = st.bonds
     /\ molecules' = st.molecules
     /\ discoveredMolecules' = st.discoveredMolecules
     /\ removedAtoms' = st.removed
     /\ reactionInProgress' = (st.thrown /\ reactionInProgress)
     /\ timers' = timers \ {t}
     /\ last' = NoHistory("identifyTimer")
     /\ UNCHANGED <<nextId, transientHeatEnergy, bondingCooldowns, identifyTimers,
                    uiVarsM, bondingTransitions, bodiesPlaced, heatIntensity,
                    component, ticks, identifyOrigins, brokenMolecule>>

\* this.pulseEnergyBoost
pulseEnergyBoost == 3

heatIntensityChange(val) ==
  /\ heatIntensity' = val
  /\ last' = NoHistory("other")
  /\ UNCHANGED <<coreVars, transientHeatEnergy, bondingCooldowns, identifyTimers,
                 uiVarsM, reactionInProgress, bondingTransitions, timers,
                 bodiesPlaced, component, removedAtoms, ticks,
                 identifyOrigins, brokenMolecule>>

\* onRecipeSelected of either component: the heat intensity is the one of the
\* recipe's conditions
onRecipeSelected(recipe) ==
  /\ heatIntensity' = recipe.conditions.heatIntensity
  /\ last' = NoHistory("other")
  /\ UNCHANGED <<coreVars, transientHeatEnergy, bondingCooldowns, identifyTimers,
                 uiVarsM, reactionInProgress, bondingTransitions, timers,
                 bodiesPlaced, component, removedAtoms, ticks,
                 identifyOrigins, brokenMolecule>>

\* applyGlobalHeatPulse: the heat rises to intensity * pulseEnergyBoost
applyGlobalHeatPulse ==
  /\ transientHeatEnergy' =
       Max2(transientHeatEnergy,
            Hundredths(100) * Max2(0, heatIntensity) * pulseEnergyBoost)
  /\ ticks' = 0
  /\ last' = NoHistory("applyGlobalHeatPulse")
  /\ UNCHANGED <<coreVars, bondingCooldowns, identifyTimers, uiVarsM, simVars>>

\* addAtom: a hydrogen atom at a random place, while the scene has fewer
\* atoms than maxAtoms and fewer than maxId atoms were ever built
addAtomWithin(maxAtoms, maxId) ==
  /\ Len(atoms) < maxAtoms
  /\ nextId < maxId
  /\ atoms' = Append(atoms, buildAtom(1, 0))
  /\ nextId' = nextId + 1
  /\ last' = NoHistory("other")
  /\ UNCHANGED <<bonds, molecules, discoveredMolecules, transientHeatEnergy,
                 bondingCooldowns, identifyTimers, uiVarsM, simVars, ticks>>

addAtom == addAtomWithin(MaxAtoms, MaxId)

\* the largest atomic number the proton controls are taken to
MaxEditedProtons == 3

\* addNeutron is pressed while the selected atom has fewer neutrons than this
MaxNeutrons == 1

\* applyGlobalElectrolysis is pressed while fewer presses than this have a
\* timer pending
MaxElectrolysis == 2

\* the atom list with the atom of that id at the given numbers of protons and
\* neutrons
withProtons(atomList, id, protons, neutrons) ==
  [i \in DOMAIN atomList |->
     IF atomList[i].id = id
     THEN [atomList[i] EXCEPT !.protons = protons, !.neutrons = neutrons]
     ELSE atomList[i]]

\* updateAtom on this.selectedAtom with its new proton and neutron counts:
\* the mass and the visuals follow, then identifyMolecules runs at once
updateAtomS(protons, neutrons, op) ==
  \E st \in {identifyMoleculesS(
               [Core EXCEPT !.atoms = withProtons(@, selectedAtom, protons, neutrons)])} :
     /\ selectedAtom # -1
     /\ atoms' = st.atoms
     /\ bonds' = st.bonds
     /\ molecules' = st.molecules
     /\ discoveredMolecules' = st.discoveredMolecules
     /\ removedAtoms' = st.removed
     /\ last' = NoHistory(op)
     /\ UNCHANGED <<nextId, transientHeatEnergy, bondingCooldowns, identifyTimers,
                    uiVarsM, reactionVars, ticks, identifyOrigins>>

\* onElementSelect: the selected atom takes the atomic number and the
\* neutrons of the element and updateAtom runs; with no atom selected
\* createAtom makes an atom of that element and selectAtom selects it
onElementSelectS(protons) ==
  IF selectedAtom # -1
  THEN updateAtomS(protons, elementNeutrons(protons), "onElementSelect")
  ELSE /\ Len(atoms) < MaxAtoms
       /\ nextId < MaxId
       /\ atoms' = Append(atoms, buildAtom(protons, elementNeutrons(protons)))
       /\ nextId' = nextId + 1
       /\ selectedAtom' = nextId
       /\ last' = NoHistory("onElementSelect")
       /\ UNCHANGED <<bonds, molecules, discoveredMolecules, transientHeatEnergy,
                      bondingCooldowns, identifyTimers, isPaused,
                      currentSimulationMode, manualBondingMode,
                      selectedAtomsForBonding, simVars, ticks>>

\* addProton: selectedAtom.protons++ and updateAtom
addProtonS ==
  /\ selectedAtom # -1
  /\ AtomOf(atoms, selectedAtom).protons < MaxEditedProtons
  /\ updateAtomS(AtomOf(atoms, selectedAtom).protons + 1,
                 AtomOf(atoms, selectedAtom).neutrons, "addProton")

\* removeProton: selectedAtom.protons-- while it is above 1, and updateAtom
removeProtonS ==
  /\ selectedAtom # -1
  /\ AtomOf(atoms, selectedAtom).protons > 1
  /\ updateAtomS(AtomOf(atoms, selectedAtom).protons - 1,
                 AtomOf(atoms, selectedAtom).neutrons, "removeProton")

\* addNeutron: selectedAtom.neutrons++ and updateAtom.  The neutrons are in
\* no decision of the chemistry: the atom keeps its atomic number and
\* identifyMolecules runs.
addNeutronS ==
  /\ selectedAtom # -1
  /\ AtomOf(atoms, selectedAtom).neutrons < MaxNeutrons
  /\ updateAtomS(AtomOf(atoms, selectedAtom).protons,
                 AtomOf(atoms, selectedAtom).neutrons + 1, "addNeutron")

\* removeNeutron: selectedAtom.neutrons-- while it is above 0, and
\* updateAtom; on an atom without neutrons nothing runs
removeNeutronS ==
  /\ selectedAtom # -1
  /\ AtomOf(atoms, selectedAtom).neutrons > 0
  /\ updateAtomS(AtomOf(atoms, selectedAtom).protons,
                 AtomOf(atoms, selectedAtom).neutrons - 1, "removeNeutron")

\* the reactant lists onCreateReactants is called with: one atom of oxygen,
\* and one unit of diatomic hydrogen
ReactantChoices ==
  {<< [element |-> "O", count |-> 1, atomicNumber |-> 8] >>,
   << [element |-> "H₂", count |-> 1, atomicNumber |-> 1] >>}

\* onCreateReactants of simulation.component.ts: createAtom for each atom of
\* the recipe's reactants, each with this.nextId++; the atoms of the scene
\* stay and the selection is as it was
onCreateReactantsS(reactants) ==
  \E elements \in {reactantElements(reactants)} :
     /\ Len(atoms) + Len(elements) <= MaxAtoms
     /\ nextId + Len(elements) <= MaxId
     /\ atoms' = atoms \o [i \in DOMAIN elements |->
                             [id |-> nextId + i - 1, protons |-> elements[i],
                              neutrons |-> elements[i], isMoleculeMember |-> FALSE]]
     /\ nextId' = nextId + Len(elements)
     /\ last' = NoHistory("other")
     /\ UNCHANGED <<bonds, molecules, discoveredMolecules, transientHeatEnergy,
                    bondingCooldowns, identifyTimers, uiVarsM, simVars, ticks>>

\* deleteBond(bond): the bonds of that id leave the list, then identifyMolecules
deleteBondS(bondToDelete, st) ==
  identifyMoleculesS([st EXCEPT !.bonds = SelectSeq(@, LAMBDA b : b # bondToDelete)])

RECURSIVE deleteBondsS(_, _)
\* bondsToRemove.forEach(b => this.deleteBond(b))
deleteBondsS(bondsToRemove, st) ==
  IF bondsToRemove = <<>> \/ st.thrown THEN st
  ELSE deleteBondsS(Tail(bondsToRemove), deleteBondS(Head(bondsToRemove), st))

\* deleteAtom of simulation.component.ts: the first molecule that lists the
\* atom leaves the list, its atoms are unmarked and the bonds between them
\* are deleted one by one; then the atom leaves this.atoms, the bonds that
\* touch it are deleted one by one, and identifyMolecules runs.  Each
\* deleteBond runs identifyMolecules on the scene as it is at that moment; an
\* identifyMolecules that throws ends the handler where it stands.
deleteAtomS(id) ==
  LET owners == {i \in DOMAIN molecules : id \in Range(molecules[i].atoms)}
      moleculeContainingAtom ==
        molecules[CHOOSE i \in owners : \A j \in owners : i <= j]
  IN
  \E st1 \in {IF owners = {} THEN Core
               ELSE deleteBondsS(
                      SelectSeq(bonds,
                        LAMBDA b : /\ b.atomA \in Range(moleculeContainingAtom.atoms)
                                   /\ b.atomB \in Range(moleculeContainingAtom.atoms)),
                      [Core EXCEPT
                         !.molecules = SelectSeq(@,
                            LAMBDA m : m.id # moleculeContainingAtom.id),
                         !.atoms = freed(@, moleculeContainingAtom.atoms),
                         !.removed = freed(@, moleculeContainingAtom.atoms)])} :
  \E st2 \in {IF st1.thrown THEN st1
               ELSE [st1 EXCEPT
                       !.atoms = SelectSeq(@, LAMBDA a : a.id # id),
                       !.removed = Append(@, AtomOf(st1.atoms, id))]} :
  \E st3 \in {deleteBondsS(
                SelectSeq(st2.bonds, LAMBDA b : b.atomA = id \/ b.atomB = id),
                st2)} :
  \E st4 \in {identifyMoleculesS(st3)} :
     /\ id \in AtomIds
     /\ atoms' = st4.atoms
     /\ bonds' = st4.bonds
     /\ molecules' = st4.molecules
     /\ discoveredMolecules' = st4.discoveredMolecules
     /\ removedAtoms' = st4.removed
     /\ selectedAtom' = IF selectedAtom = id /\ ~st3.thrown
                        THEN firstAtomOrNull(st2.atoms)
                        ELSE selectedAtom
     /\ last' = Deleted(id)
     /\ UNCHANGED <<nextId, transientHeatEnergy, bondingCooldowns, identifyTimers,
                    isPaused, currentSimulationMode, manualBondingMode,
                    selectedAtomsForBonding, reactionVars, ticks, identifyOrigins>>

\* deleteAtomClicked on an atom of the list
DeleteAtomS == \E id \in AtomIds : deleteAtomS(id)

\* loadFontAndStart: two hydrogen atoms at (1, 0, 0) and (-1, 0, 0), the first
\* one selected; the fields of the other component keep their defaults
InitS ==
  /\ atoms = << [id |-> 0, protons |-> 1, neutrons |-> 0, isMoleculeMember |-> FALSE],
                [id |-> 1, protons |-> 1, neutrons |-> 0, isMoleculeMember |-> FALSE] >>
  /\ nextId = 2
  /\ bonds = <<>>
  /\ molecules = <<>>
  /\ discoveredMolecules = <<>>
  /\ transientHeatEnergy = 0
  /\ bondingCooldowns = {}
  /\ identifyTimers = 0
  /\ isPaused = FALSE
  /\ currentSimulationMode = "educational"
  /\ manualBondingMode = FALSE
  /\ selectedAtomsForBonding = <<>>
  /\ selectedAtom = firstAtomOrNull(atoms)
  /\ reactionInProgress = FALSE
  /\ bondingTransitions = {}
  /\ timers = {}
  /\ identifyOrigins = <<>>
  /\ brokenMolecule = NoMolecule
  /\ bodiesPlaced = FALSE
  /\ heatIntensity = 5
  /\ removedAtoms = <<>>
  /\ component = "sim"
  /\ ticks = 0
  /\ last = NoHistory("init")

\* the mode-based component with its scene: frames, timers, manual bonding,
\* new atoms and deletions.  The energy panel is not used: the kinetic term
\* alone decides whether a pair has its activation energy.
NextM ==
  \/ AnimateM
  \/ IdentifyTimerM
  \/ CooldownElapsedM
  \/ HandleManualBondSelection
  \/ toggleManualBondingMode
  \/ \E protons \in ElementChoices : onElementSelectM(protons)
  \/ DeleteAtomM

SpecM == InitM /\ [][NextM]_vars

\* the energy panel on the scene of the two hydrogen atoms: frames and timers,
\* the amounts of the panel while no frame has decayed the heat since it was
\* last set, reset, pause and the three modes; MaxTicks frames decay the heat
\* after it was last set
NextEnergyM ==
  \/ ((~isPaused /\ transientHeatEnergy > 0) => ticks < MaxTicks) /\ AnimateM
  \/ IdentifyTimerM
  \/ CooldownElapsedM
  \/ \E amount \in EnergyAmounts :
        /\ ticks = 0
        /\ transientHeatEnergy + amount <= Hundredths(MaxHeat)
        /\ transientHeatEnergy + amount >= -Hundredths(MaxDebt)
        /\ addSystemEnergy(amount)
  \/ resetSystemEnergy
  \/ togglePause
  \/ \E mode \in SimulationModes : onModeChanged(mode)

SpecEnergyM == InitM /\ [][NextEnergyM]_vars

\* simulation.component.ts with its scene and no heat: frames, gradual bonds,
\* timers, new hydrogen atoms and the periodic table on the selected atom,
\* which is atoms[0] from loadFontAndStart on.
\* The kinetic term alone decides whether a pair has its activation energy.
NextS ==
  \/ AnimateS
  \/ GradualBondCompleteS
  \/ IdentifyTimerS
  \/ CooldownElapsedS
  \/ addAtom
  \/ \E protons \in ElementChoicesS : onElementSelectS(protons)

SpecS == InitS /\ [][NextS]_vars

\* simulation.component.ts with the selection and the controls of the selected
\* atom: frames while the scene has its two atoms, gradual bonds, timers, the
\* clicks that select an atom or a molecule, the proton controls, the
\* neutron controls while the scene has its two atoms, hydrogen from the
\* periodic table, and the reactants of a recipe
NextEditS ==
  \/ (Len(atoms) <= 2 /\ AnimateS)
  \/ GradualBondCompleteS
  \/ IdentifyTimerS
  \/ CooldownElapsedS
  \/ onElementSelectS(1)
  \/ \E id \in AtomIds : selectAtom(id)
  \/ selectMolecule
  \/ addProtonS
  \/ removeProtonS
  \/ (Len(atoms) <= 2 /\ addNeutronS)
  \/ (Len(atoms) <= 2 /\ removeNeutronS)
  \/ \E reactants \in ReactantChoices : onCreateReactantsS(reactants)

SpecEditS == InitS /\ [][NextEditS]_vars

\* simulation.component.ts with heat pulses and the reactions they start, on
\* hydrogen atoms: a pulse is given once the heat slider stands at one of
\* HeatIntensityChoices and while no frame has decayed the heat, and
\* MaxTicks frames follow a pulse; the timers and the gradual bonds a frame
\* has started run to their end
NextHeatS ==
  \/ (ticks < MaxTicks /\ AnimateS)
  \/ GradualBondCompleteS
  \/ IdentifyTimerS
  \/ CooldownElapsedS
  \/ CreateOptimalTimerS
  \/ CreateBondsTimerS
  \/ FinishTimerS
  \/ \E val \in HeatIntensityChoices : heatIntensityChange(val)
  \/ (ticks = 0 /\ heatIntensity \in HeatIntensityChoices /\ applyGlobalHeatPulse)
  \/ addAtom

\* either component is started, and runs its own operations
Init == InitM \/ InitS

\* the mode-based component with its scene and no deletion: frames, timers,
\* manual bonding and new atoms
NextBondsM ==
  \/ AnimateM
  \/ IdentifyTimerM
  \/ CooldownElapsedM
  \/ HandleManualBondSelection
  \/ toggleManualBondingMode
  \/ \E protons \in ElementChoices : onElementSelectM(protons)

Next ==
  \/ (component = "mode" /\ NextBondsM)
  \/ (component = "sim" /\ NextHeatS)

Spec == Init /\ [][Next]_vars

\* ------------------------------------------------------------------------
\* identifyMolecules as a function of the atom list and the bond list
\* ------------------------------------------------------------------------
\* the atomic numbers of the listed atoms: hydrogen, helium, oxygen, neon, argon
ElementChoicesI == {1, 2, 8, 10, 18}

\* the lists of one to MaxAtoms free atoms with the ids 0, 1, ... in any order
AtomLists ==
  UNION {{s \in [1..n -> [id : 0..(n - 1), protons : ElementChoicesI, neutrons : {0},
                          isMoleculeMember : {FALSE}]] :
            \A i, j \in 1..n : i # j => s[i].id # s[j].id} : n \in 1..MaxAtoms}

\* the lists of bonds between the atoms of a list: any set of pairs, each
\* pair once, in any order of the list
BondLists(atomList) ==
  LET ids == {atomList[i].id : i \in DOMAIN atomList}
      records == {[atomA |-> a, atomB |-> b] : a, b \in ids}
      pairs == {r \in records : r.atomA < r.atomB}
  IN UNION {{s \in [1..m -> pairs] : \A i, j \in 1..m : i # j => s[i] # s[j]} :
              m \in 0..Cardinality(pairs)}

\* a scene of free atoms and bonds in either component, nothing pending
InitIdentify ==
  /\ component \in {"mode", "sim"}
  /\ atoms \in AtomLists
  /\ bonds \in BondLists(atoms)
  /\ nextId = Len(atoms)
  /\ molecules = <<>>
  /\ discoveredMolecules = <<>>
  /\ transientHeatEnergy = 0
  /\ bondingCooldowns = {}
  /\ identifyTimers = 0
  /\ isPaused = FALSE
  /\ currentSimulationMode = "educational"
  /\ manualBondingMode = FALSE
  /\ selectedAtomsForBonding = <<>>
  /\ selectedAtom = firstAtomOrNull(atoms)
  /\ reactionInProgress = FALSE
  /\ bondingTransitions = {}
  /\ timers = {}
  /\ identifyOrigins = <<>>
  /\ brokenMolecule = NoMolecule
  /\ bodiesPlaced = FALSE
  /\ heatIntensity = 5
  /\ removedAtoms = <<>>
  /\ ticks = 0
  /\ last = [op |-> "init", atoms |-> atoms, bonds |-> bonds]

\* identifyMolecules of the mode-based component on the scene; the history
\* keeps the two lists it was given
IdentifyMoleculesM ==
  /\ component = "mode"
  /\ last.op = "init"
  /\ \E st \in {identifyMoleculesM(Core)} :
        /\ atoms' = st.atoms
        /\ bonds' = st.bonds
        /\ molecules' = st.molecules
        /\ discoveredMolecules' = st.discoveredMolecules
  /\ last' = [last EXCEPT !.op = "identifyMolecules"]
  /\ UNCHANGED <<nextId, transientHeatEnergy, bondingCooldowns, identifyTimers,
                 uiVarsM, simVars, ticks>>

\* identifyMolecules of simulation.component.ts on the scene
IdentifyMoleculesS ==
  /\ component = "sim"
  /\ last.op = "init"
  /\ \E st \in {identifyMoleculesS(Core)} :
        /\ atoms' = st.atoms
        /\ bonds' = st.bonds
        /\ molecules' = st.molecules
        /\ discoveredMolecules' = st.discoveredMolecules
        /\ removedAtoms' = st.removed
  /\ last' = [last EXCEPT !.op = "identifyMolecules"]
  /\ UNCHANGED <<nextId, transientHeatEnergy, bondingCooldowns, identifyTimers,
                 uiVarsM, reactionVars, ticks, identifyOrigins>>

NextIdentify == IdentifyMoleculesM \/ IdentifyMoleculesS

SpecIdentify == InitIdentify /\ [][NextIdentify]_vars

\* ------------------------------------------------------------------------
\* Properties of identifyMolecules (SpecIdentify)
\* ------------------------------------------------------------------------
\* the orderings of a list of distinct entries
Orderings(s) == {t \in [DOMAIN s -> Range(s)] : Range(t) = Range(s)}

\* a molecule list as the set of its molecules, each described by canonical
\* id, member atom set, name and geometry tag
Described(moleculeList) ==
  {[id |-> moleculeList[m].id, atoms |-> Range(moleculeList[m].atoms),
    name |-> moleculeList[m].name, geometry |-> moleculeList[m].geometry] :
     m \in DOMAIN moleculeList}

\* identifyMolecules of the running component on a scene of the given lists
IdentifiedOn(atomList, bondList) ==
  LET st == [atoms |-> atomList, bonds |-> bondList, molecules |-> <<>>,
             discoveredMolecules |-> <<>>, removed |-> <<>>,
             thrown |-> FALSE]
  IN IF component = "mode" THEN identifyMoleculesM(st).molecules
     ELSE identifyMoleculesS(st).molecules

\* the molecule has exactly one oxygen atom and two hydrogen atoms
IsWaterComponent(m) ==
  /\ Len(m.atoms) = 3
  /\ Cardinality({k \in DOMAIN m.atoms : AtomOf(atoms, m.atoms[k]).protons = 8}) = 1
  /\ Cardinality({k \in DOMAIN m.atoms : AtomOf(atoms, m.atoms[k]).protons = 1}) = 2

\* C6: in simulation.component.ts, the molecule identifyMolecules creates
\* from a connected component of exactly one oxygen atom and two hydrogen
\* atoms is named "Water (H₂O)" and has the geometry bent.
C6_WaterNamedAndBent ==
  (component = "sim" /\ last.op = "identifyMolecules") =>
     \A m \in Range(molecules) :
        IsWaterComponent(m) => (m.name = "Water (H₂O)" /\ m.geometry = "bent")

\* C10: for a fixed set of free atoms and a fixed bond set, identifyMolecules
\* gives the same set of molecules (canonical id, member atom set, name,
\* geometry tag) for every ordering of the atom list and of the bond list.
C10_IdentifyOrderIndependent ==
  last.op = "identifyMolecules" =>
     \A atomList \in Orderings(last.atoms), bondList \in Orderings(last.bonds) :
        Described(IdentifiedOn(atomList, bondList)) = Described(molecules)

\* the same statement for each component on its own
C10_OrderIndependentM == component = "mode" => C10_IdentifyOrderIndependent

C10_OrderIndependentS == component = "sim" => C10_IdentifyOrderIndependent

\* ------------------------------------------------------------------------
\* Properties of the bond set (Spec, SpecM, SpecS)
\* ------------------------------------------------------------------------
\* the bond records of a list that join a and b, in either order
PairRecords(bondList, a, b) ==
  {i \in DOMAIN bondList : {bondList[i].atomA, bondList[i].atomB} = {a, b}}

\* the bond records of a list that have the atom as an endpoint
RecordsAt(bondList, id) ==
  {i \in DOMAIN bondList : bondList[i].atomA = id \/ bondList[i].atomB = id}

\* C1: in every reachable state the number of bond records that have an atom
\* as an endpoint is at most the maxBonds of the atom's element in
\* CHEMICAL_ELEMENTS.
C1_BondsWithinMaxBonds ==
  \A i \in DOMAIN atoms :
     HasElement(atoms[i].protons) =>
        Cardinality(RecordsAt(bonds, atoms[i].id))
           <= CHEMICAL_ELEMENTS[atoms[i].protons].maxBonds

\* no two records of the bond set join the same unordered pair
OneRecordPerPair ==
  \A i, j \in DOMAIN bonds :
     i # j => {bonds[i].atomA, bonds[i].atomB} # {bonds[j].atomA, bonds[j].atomB}

\* a request for a pair that is bonded adds no record: the completion of a
\* gradual bond and a manual request, which do nothing else, leave the bond
\* set as it was; a frame and a reaction, which make other requests and run
\* the stress check, push nothing for the pair
BondedRequestAddsNothing ==
  \A r \in last'.requests :
     PairRecords(bonds, r[1], r[2]) # {} =>
        /\ \A x \in last'.added : {x.atomA, x.atomB} # {r[1], r[2]}
        /\ Cardinality(PairRecords(bonds', r[1], r[2]))
              <= Cardinality(PairRecords(bonds, r[1], r[2]))
        /\ last'.op \in {"gradualBond", "createManualBond"} => bonds' = bonds

\* C2: the bond set never holds two records for the same unordered pair of
\* atom ids, and a request for a pair that is already bonded, in either
\* argument order and by any path, leaves the bond set unchanged.
C2_OneBondPerPair == []OneRecordPerPair /\ [][BondedRequestAddsNothing]_vars

\* a gradual bond completed on a pair that a reaction had bonded meanwhile
C2_BondedPairRequested ==
  /\ last.op = "gradualBond"
  /\ last.added = {}
  /\ \E r \in last.requests : PairRecords(bonds, r[1], r[2]) # {}

\* C3: a bond record is added only if canFormBond(atomA, atomB, systemEnergy)
\* is true for the pair in the state in which it is added, by the scan, the
\* completion of a gradual bond, a manual request or a reaction.
C3_AddedOnlyIfCanFormBond == \A r \in last.added : r.allowed

\* the scene of C5 after a frame of the mode-based component: exactly two
\* atoms, both free hydrogen, no molecule, and the scan of the frame passed
\* the pair (closer than 4.0, canFormBond true at the system energy)
HydrogenPairScanned ==
  /\ component = "mode"
  /\ last.op = "animate"
  /\ Len(atoms) = 2
  /\ \A i \in DOMAIN atoms : atoms[i].protons = 1 /\ ~atoms[i].isMoleculeMember
  /\ molecules = <<>>
  /\ last.requests # {}
  /\ \A r \in last.requests : last.dist[{r[1], r[2]}] < 400
  /\ \A r \in last.added : r.allowed

\* the identification that follows the frame reports one molecule, hydrogen gas
HydrogenGasIdentified ==
  (HydrogenPairScanned /\ last'.op = "identifyTimer") =>
     (Len(molecules') = 1 /\ molecules'[1].name = "Hydrogen Gas (H₂)")

\* C5: in the mode-based component, automatic reactions on and not paused,
\* two free hydrogen atoms closer than 4.0 with the H-H activation energy
\* get exactly one bond, and the identification that follows reports exactly
\* one molecule, named "Hydrogen Gas (H₂)".
C5_HydrogenGasForms ==
  /\ [](HydrogenPairScanned =>
          (Len(bonds) = 1
           /\ PairRecords(bonds, atoms[1].id, atoms[2].id) = {1}))
  /\ [][HydrogenGasIdentified]_vars

\* a frame of the mode-based component whose scan pushes no second record
\* on a hydrogen atom, and no record on a hydrogen atom of a molecule
ScanKeepsHydrogenAtOneBond ==
  (component = "mode" /\ last'.op = "animate") =>
     \A i \in DOMAIN atoms :
        atoms[i].protons = 1 =>
           Cardinality(RecordsAt(bonds, atoms[i].id))
           + (IF atoms[i].isMoleculeMember THEN 1 ELSE 0)
           + Cardinality({x \in last'.added :
                            atoms[i].id \in {x.atomA, x.atomB}}) <= 1

\* a manual request that names a hydrogen atom with a bond, one on record
\* in the bond set or one held by the molecule the atom is in, changes
\* neither the bond set, nor the molecule list, nor a membership flag
ManualRequestOnBondedHydrogenRejected ==
  (component = "mode" /\ last'.op = "createManualBond") =>
     \A r \in last'.requests :
        (\E id \in {r[1], r[2]} :
            /\ AtomOf(atoms, id).protons = 1
            /\ (RecordsAt(bonds, id) # {} \/ IsMemberId(atoms, id)))
        => (bonds' = bonds /\ molecules' = molecules /\ atoms' = atoms
            /\ last'.added = {})

\* C7: in the mode-based component a hydrogen atom that has one bond (a
\* record of the bond set, or the bond of the molecule it is a member of) is
\* never made the endpoint of a second bond by the automatic scan, and a
\* manual request naming it is rejected with the bond set, the molecule set
\* and every membership flag unchanged.
C7_BondedHydrogenRefused ==
  [][ScanKeepsHydrogenAtOneBond /\ ManualRequestOnBondedHydrogenRejected]_vars

\* the stress check of the last frame found the bond longer than
\* (radiusA + radiusB) times the break factor of the running component
Stretched(b) ==
  last.dist[{b.atomA, b.atomB}] >
     (IF component = "mode" THEN maxBondLengthM(atoms, b)
      ELSE maxBondLengthS(atoms, b))

\* when the stress check returns, the bonds it found stretched are gone
StretchedBondsRemoved ==
  last.op = "animate" =>
     \A b \in last.checked : Stretched(b) => b \notin Range(bonds)

\* once the identification the stress check schedules has run, a molecule
\* that held both ends of a stretched bond is off the list and its atoms
\* are free
StretchedMoleculeReleased ==
  (last.op = "animate" /\ last'.op = "identifyTimer") =>
     \A b \in last.checked :
        Stretched(b) =>
           \A m \in Range(molecules) :
              {b.atomA, b.atomB} \subseteq Range(m.atoms) =>
                 /\ m \notin Range(molecules')
                 /\ \A id \in Range(m.atoms) : ~IsMemberId(atoms', id)

\* C8: a bond whose ends are farther apart than (radiusA + radiusB) times
\* the break factor when updateBondVisuals runs is absent from the bond set
\* when the check returns, and every atom of a molecule the pair belonged to
\* is afterwards free, the molecule removed from the molecule list.
C8_StretchedBondReleasesMolecule ==
  []StretchedBondsRemoved /\ [][StretchedMoleculeReleased]_vars

\* ------------------------------------------------------------------------
\* Properties of the transient heat (SpecEnergyM)
\* ------------------------------------------------------------------------
\* C4: transientHeatEnergy is at least 0 in every reachable state, whatever
\* the amounts added, the decay, the resets and the consumption.
C4_HeatNeverNegative == transientHeatEnergy >= 0

\* an unpaused frame of the mode-based component: positive heat falls and
\* stays at or above 0, and no heat stays none
UnpausedFrameDecays ==
  (component = "mode" /\ last'.op = "animate" /\ ~isPaused) =>
     /\ transientHeatEnergy > 0 =>
           (transientHeatEnergy' < transientHeatEnergy /\ transientHeatEnergy' >= 0)
     /\ transientHeatEnergy = 0 => transientHeatEnergy' = 0

\* C9: from transientHeatEnergy = 0, after two addSystemEnergy(5) and then
\* unpaused ticks with no further energy added, each tick that starts from a
\* positive value ends strictly below it, and the value is never below 0.
C9_DecayStrictlyDecreasing == [][UnpausedFrameDecays]_vars

\* the first educational frame after two addSystemEnergy(5) from 0 left
\* 9.98 of the 10.00
C9_DecayedAfterTwoAdds ==
  /\ component = "mode"
  /\ last.op = "animate"
  /\ ~isPaused
  /\ currentSimulationMode = "educational"
  /\ ticks = 1
  /\ transientHeatEnergy = Hundredths(998)

\* ------------------------------------------------------------------------
\* Breaking a molecule and bonding its atoms again (SpecRebond)
\* ------------------------------------------------------------------------
\* the scenes of SpecIdentify made of hydrogen and oxygen; in
\* simulation.component.ts the atoms after atoms[0], the atom the periodic
\* table acts on, are the hydrogen atoms of addAtom
InitRebond ==
  /\ InitIdentify
  /\ \A i \in DOMAIN atoms : atoms[i].protons \in {1, 8}
  /\ component = "sim" => \A i \in DOMAIN atoms : i > 1 => atoms[i].protons = 1

\* the bond records of a list that join two atoms of a molecule
internalBonds(bondList, m) ==
  SelectSeq(bondList,
    LAMBDA b : b.atomA \in Range(m.atoms) /\ b.atomB \in Range(m.atoms))

\* breakMolecule of the mode-based component, as deleteAtom calls it: on a
\* molecule of the list.  The history keeps the broken molecule next to the
\* lists the scene started from.
BreakMolecule ==
  /\ component = "mode"
  /\ last.op \in {"identifyMolecules", "identifyAgain"}
  /\ \E m \in DOMAIN molecules :
        \E st \in {breakMoleculeM(molecules[m], Core)} :
           /\ atoms' = st.atoms
           /\ molecules' = st.molecules
           /\ brokenMolecule' = Handed(molecules[m], molecules)
           /\ last' = [op |-> "breakMolecule", atoms |-> last.atoms,
                       bonds |-> last.bonds, broken |-> molecules[m]]
  /\ UNCHANGED <<nextId, bonds, discoveredMolecules, transientHeatEnergy,
                 bondingCooldowns, identifyTimers, uiVarsM, reactionInProgress,
                 bondingTransitions, timers, bodiesPlaced, heatIntensity,
                 component, removedAtoms, ticks, identifyOrigins>>

\* the atom pairs the broken molecule's bonds joined that have no bond now
PairsToRebond ==
  {{b.atomA, b.atomB} : b \in Range(internalBonds(last.bonds, last.broken))}
     \ {{b.atomA, b.atomB} : b \in Range(bonds)}

\* createBond(atomA, atomB, true) of the mode-based component on a pair the
\* broken molecule's bonds joined, with the two atoms in either order
RecreateBond ==
  /\ component = "mode"
  /\ last.op = "breakMolecule"
  /\ \E p \in PairsToRebond : \E a \in p : \E b \in p \ {a} :
        bonds' = createBondM(bonds, a, b)
  /\ UNCHANGED <<atoms, nextId, molecules, discoveredMolecules,
                 transientHeatEnergy, bondingCooldowns, identifyTimers, uiVarsM,
                 simVars, ticks, last>>

\* the next identifyMolecules of the mode-based component, once every such
\* pair is bonded again
IdentifyAgain ==
  /\ component = "mode"
  /\ last.op = "breakMolecule"
  /\ PairsToRebond = {}
  /\ \E st \in {identifyMoleculesM(Core)} :
        /\ atoms' = st.atoms
        /\ bonds' = st.bonds
        /\ molecules' = st.molecules
        /\ discoveredMolecules' = st.discoveredMolecules
  /\ last' = [last EXCEPT !.op = "identifyAgain", !.bonds = bonds]
  /\ UNCHANGED <<nextId, transientHeatEnergy, bondingCooldowns, identifyTimers,
                 uiVarsM, simVars, ticks>>

\* the presses of applyGlobalElectrolysis whose timers are pending
PendingElectrolysis ==
  {t.press : t \in {u \in timers : u.kind = "breakMolecule"}}

\* applyGlobalElectrolysis: performElectrolysis on every molecule of a copy of
\* the list, which sets a timer of 1000 ms that holds the molecule object
applyGlobalElectrolysis ==
  /\ component = "sim"
  /\ molecules # <<>>
  /\ \E press \in 1..MaxElectrolysis :
        /\ press \notin PendingElectrolysis
        /\ \A earlier \in 1..(press - 1) : earlier \in PendingElectrolysis
        /\ timers' = timers \cup {[kind |-> "breakMolecule",
                                   atoms |-> molecules[m].atoms,
                                   molecule |-> molecules[m],
                                   press |-> press] : m \in DOMAIN molecules}
  /\ last' = NoHistory("applyGlobalElectrolysis")
  /\ UNCHANGED <<coreVars, transientHeatEnergy, bondingCooldowns, identifyTimers,
                 uiVarsM, reactionInProgress, bondingTransitions, bodiesPlaced,
                 heatIntensity, component, removedAtoms, ticks, identifyOrigins,
                 brokenMolecule>>

\* the timer of performElectrolysis fires: breakMolecule(molecule) on the
\* object the timer holds, whether the list still has it or not, and the
\* timer of 100 ms for a bonding check when no reaction is in progress
ElectrolysisTimerS ==
  \E t \in {u \in timers : u.kind = "breakMolecule"} :
  \E st \in {breakMoleculeS(t.molecule, Core)} :
     /\ atoms' = st.atoms
     /\ removedAtoms' = st.removed
     /\ molecules' = st.molecules
     /\ brokenMolecule' = Handed(t.molecule, molecules)
     /\ timers' = (timers \ {t})
                  \cup (IF reactionInProgress THEN {}
                        ELSE {[kind |-> "bondingCheck", atoms |-> t.atoms,
                               press |-> t.press]})
     /\ last' = NoHistory("breakMolecule")
     /\ UNCHANGED <<nextId, bonds, discoveredMolecules, transientHeatEnergy,
                    bondingCooldowns, identifyTimers, uiVarsM, reactionInProgress,
                    bondingTransitions, bodiesPlaced, heatIntensity, component,
                    ticks, identifyOrigins>>

\* the timer of breakMolecule fires: checkAndCreateBonds() and
\* identifyMolecules(), outside a frame.  due is the outcome of the throttle
\* of the scan, d and k are the distances of the free atoms and the kinetic
\* term at that moment.
BreakMoleculeTimerS ==
  \E t \in {x \in timers : x.kind = "bondingCheck"} :
  \E st \in {identifyMoleculesS(Core)} :
  \E sc \in {checkAndCreateBondsS(due, d, transientHeatEnergy + k) :
               due \in BOOLEAN,
               d \in DistChoices(IF reactionInProgress THEN {}
                                 ELSE PairsOf({id \in AtomIds :
                                                 ~IsMemberId(atoms, id)})),
               k \in KineticVals} :
     /\ timers' = timers \ {t}
     /\ bondingCooldowns' = sc.cooldowns
     /\ bondingTransitions' = sc.transitions
     /\ atoms' = st.atoms
     /\ bonds' = st.bonds
     /\ molecules' = st.molecules
     /\ discoveredMolecules' = st.discoveredMolecules
     /\ removedAtoms' = st.removed
     /\ last' = NoHistory("bondingCheck")
     /\ UNCHANGED <<nextId, transientHeatEnergy, identifyTimers, uiVarsM,
                    reactionInProgress, bodiesPlaced, heatIntensity, component,
                    ticks, identifyOrigins, brokenMolecule>>

\* the mode-based component breaks a molecule of the scene and bonds its
\* pairs again.  simulation.component.ts runs the scene with no heat:
\* electrolysis is pressed until the first molecule is broken, the timers
\* and the gradual bonds run to their end, and frames and cooldown windows
\* pass while the scene has at most two atoms
NextRebond ==
  \/ IdentifyMoleculesM
  \/ IdentifyMoleculesS
  \/ BreakMolecule
  \/ RecreateBond
  \/ IdentifyAgain
  \/ (brokenMolecule = NoMolecule /\ applyGlobalElectrolysis)
  \/ ElectrolysisTimerS
  \/ BreakMoleculeTimerS
  \/ (component = "sim" /\ last.op # "init" /\ Len(atoms) <= 2 /\ AnimateS)
  \/ GradualBondCompleteS
  \/ IdentifyTimerS
  \/ (Len(atoms) <= 2 /\ CooldownElapsedS)

SpecRebond == InitRebond /\ [][NextRebond]_vars

RECURSIVE reachedWithin(_, _, _)
\* the atoms of a set that bonds between atoms of the set join to those seen
reachedWithin(bondList, within, seen) ==
  IF \E x \in within \ seen : \E y \in seen : bondExists(bondList, x, y)
  THEN reachedWithin(bondList, within,
         seen \cup {x \in within : \E y \in seen : bondExists(bondList, x, y)})
  ELSE seen

\* the bonds of the broken molecule are there again: the molecule is off the
\* list, bonds join its atoms to one another, as the bonds it was made from
\* did, and no bond joins one of them to another atom
Rebonded ==
  /\ brokenMolecule # NoMolecule
  /\ \A m \in DOMAIN molecules : molecules[m].id # brokenMolecule.id
  /\ \E first \in Range(brokenMolecule.atoms) :
        reachedWithin(bonds, Range(brokenMolecule.atoms), {first})
           = Range(brokenMolecule.atoms)
  /\ \A i \in DOMAIN bonds :
        bonds[i].atomA \in Range(brokenMolecule.atoms)
           <=> bonds[i].atomB \in Range(brokenMolecule.atoms)

\* the steps that run identifyMolecules
IdentifySteps == {"identifyAgain", "identifyTimer", "bondingCheck"}

RebondedMoleculeIdentified ==
  (Rebonded /\ last'.op \in IdentifySteps) =>
     /\ \E m \in DOMAIN molecules' : molecules'[m].id = brokenMolecule.id
     /\ \A m \in DOMAIN molecules' :
           molecules'[m].id = brokenMolecule.id =>
              Range(molecules'[m].atoms) = Range(brokenMolecule.atoms)

AnimateBetweenScansS ==
  \E d \in DistChoices(ReadPairsS(FALSE)),
     k \in (IF LooksAroundS(FALSE) THEN KineticVals ELSE {0}),
     near \in NearChoicesS :
     animateS(d, k, FALSE, near)

\* simulation.component.ts on hydrogen atoms with heat pulses at any moment,
\* the heat slider and the recipe of water, which set the intensity of the
\* next pulse, the frames between two scans, and the reactions and their timers
NextReactS ==
  \/ AnimateBetweenScansS
  \/ IdentifyTimerS
  \/ CreateOptimalTimerS
  \/ CreateBondsTimerS
  \/ FinishTimerS
  \/ \E val \in HeatIntensityChoices : heatIntensityChange(val)
  \/ \E recipe \in ReactRecipeChoices : onRecipeSelected(recipe)
  \/ applyGlobalHeatPulse
  \/ addAtom

SpecReactS == InitS /\ [][NextReactS]_vars

\* the reactions attemptMolecularReactions starts: an atom that joins a
\* molecule and three atoms that combine, which run in stages behind
\* reactionInProgress, and two atoms that combine, which take no lock
Reactions == {"atomMolecule", "threeAtom", "twoAtom"}

\* the reactions in flight, each named by its atoms: a reaction in stages has
\* a timer pending, a two-atom combination its identifyMolecules timer
ReactionsInFlight ==
  {t.atoms : t \in {u \in timers :
                      u.kind \in {"createOptimalMolecularStructure",
                                  "createBonds", "finish"}}}
  \cup {identifyOrigins[i] :
          i \in {j \in DOMAIN identifyOrigins : identifyOrigins[j] # StressCheck}}

\* no two reactions are in flight
OneReactionInFlight == Cardinality(ReactionsInFlight) <= 1

\* a frame that starts a reaction finds no other reaction in flight: the
\* one that can be there is the two-atom combination of the same atoms,
\* which the frame has found again
FrameRespectsLock ==
  (component = "sim" /\ last'.op = "animate" /\ last'.reaction \in Reactions) =>
     \A atomsInFlight \in ReactionsInFlight :
        last'.reaction = "twoAtom" /\ last'.requests = {atomsInFlight}

\* a timer of a reaction in flight hands over to the next stage of the same
\* reaction, on the same atoms, or ends it
TimerContinuesSameReaction ==
  (timers # {} /\ timers' # timers /\ last'.op # "animate") =>
     \E t \in timers :
        \/ timers' = {}
        \/ \E u \in timers' : timers' = {u} /\ u.atoms = t.atoms

\* C12: at most one complex reaction is in flight at any time: from the
\* moment a reaction (atom + molecule, or two or three atoms) starts until
\* its last deferred continuation has run, no step of any other reaction
\* runs.
C12_OneReactionInFlight ==
  /\ []OneReactionInFlight
  /\ [][FrameRespectsLock]_vars
  /\ [][TimerContinuesSameReaction]_vars

\* ------------------------------------------------------------------------
\* Deleted atoms in simulation.component.ts (SpecDeleteS)
\* ------------------------------------------------------------------------
\* simulation.component.ts on hydrogen atoms with no heat: frames, gradual
\* bonds, timers, new atoms and deletions, with the cooldown of each pair
\* still running
NextDeleteS ==
  \/ AnimateS
  \/ GradualBondCompleteS
  \/ IdentifyTimerS
  \/ addAtom
  \/ DeleteAtomS

SpecDeleteS == InitS /\ [][NextDeleteS]_vars

\* the ids of the deleted atoms
RemovedIds == {removedAtoms[i].id : i \in DOMAIN removedAtoms}

\* no bond record and no molecule refers to an atom that is not in the atom
\* collection
NoDanglingReference ==
  /\ \A b \in Range(bonds) : b.atomA \in AtomIds /\ b.atomB \in AtomIds
  /\ \A m \in Range(molecules) : Range(m.atoms) \subseteq AtomIds

\* the completion callback of a gradual bond that refers to a deleted atom
\* changes no collection of the scene
LateCompletionChangesNothing ==
  (last'.op = "gradualBond"
     /\ \E r \in last'.requests : r[1] \in RemovedIds \/ r[2] \in RemovedIds)
  => UNCHANGED coreVars

\* C13: a deferred continuation (the completion callback of a gradual bond, a
\* staged reaction timer, a delayed identification) that runs after an atom
\* it refers to was deleted makes no change, and no bond record and no
\* molecule ever refers to an atom that is not in the atom collection.
C13_DeletedAtomsNeverReferenced ==
  /\ []NoDanglingReference
  /\ [][LateCompletionChangesNothing]_vars

\* ------------------------------------------------------------------------
\* Molecule membership
\* ------------------------------------------------------------------------
\* the molecules of the list that have the atom in their member list
MoleculesOf(id) == {m \in DOMAIN molecules : id \in Range(molecules[m].atoms)}

\* C14: in every state in which no identification is mid-execution, an atom's
\* isMoleculeMember flag is true if and only if the atom is in the member
\* list of exactly one molecule of the molecule collection, and no atom is a
\* member of two molecules.
C14_FlagMatchesMembership ==
  \A i \in DOMAIN atoms :
     /\ atoms[i].isMoleculeMember <=> (Cardinality(MoleculesOf(atoms[i].id)) = 1)
     /\ Cardinality(MoleculesOf(atoms[i].id)) <= 1

\* ------------------------------------------------------------------------
\* Clearing and loading experiments in molecular-recipes.interface.ts
\* (SpecClearM): frames, timers, new atoms, deletion, reset, clear, the
\* 'h2' experiment and the reactants of the recipes of up to three atoms
NextClearM ==
  \/ AnimateM
  \/ IdentifyTimerM
  \/ CooldownElapsedM
  \/ \E protons \in ElementChoices : onElementSelectM(protons)
  \/ DeleteAtomM
  \/ resetSimulation
  \/ clearAllAtoms
  \/ \E experimentAtoms \in ExperimentChoices : loadExperimentAtoms(experimentAtoms)
  \/ \E recipe \in RecipeChoices :
        /\ nextId + Len(reactantElements(recipe.reactants)) <= MaxRecipeId
        /\ onCreateReactants(recipe)

SpecClearM == InitM /\ [][NextClearM]_vars

\* the catalog of molecular-recipes.interface.ts (SpecCatalogM): each of its
\* recipes is selected and has its reactants created; the scene is cleared;
\* frames and timers run while the scene has at most two atoms
NextCatalogM ==
  \/ (Len(atoms) <= 2 /\ AnimateM)
  \/ IdentifyTimerM
  \/ CooldownElapsedM
  \/ clearAllAtoms
  \/ \E recipe \in RecipeChoices : onRecipeSelected(recipe)
  \/ \E recipe \in RecipeChoices :
        /\ nextId + Len(reactantElements(recipe.reactants)) <= MaxCatalogId
        /\ onCreateReactants(recipe)

SpecCatalogM == InitM /\ [][NextCatalogM]_vars

IsPrefix(s, t) == Len(s) <= Len(t) /\ SubSeq(t, 1, Len(s)) = s

NoNameTwice ==
  \A i, j \in DOMAIN discoveredMolecules :
     discoveredMolecules[i] = discoveredMolecules[j] => i = j

RegistryOnlyGrows == IsPrefix(discoveredMolecules, discoveredMolecules')

\* C15: the registry of discovered molecules is append-only and holds no name
\* twice: whatever is done, clearing all atoms and resetting the simulation
\* included, its contents before a step are a prefix of its contents after
\* the step, and no name occurs in it at two places.
C15_RegistryAppendOnly == []NoNameTwice /\ [][RegistryOnlyGrows]_vars

\* a molecule made of atoms of an experiment loaded after a clear exists, and
\* its name was in the registry before
C15_KnownMoleculeFormedAgain ==
  /\ nextId > 3
  /\ molecules # <<>>
  /\ \A i \in DOMAIN molecules : \A k \in DOMAIN molecules[i].atoms :
        molecules[i].atoms[k] >= 2
  /\ Len(discoveredMolecules) = 1

\* ------------------------------------------------------------------------
\* What deleteAtom leaves behind
\* the atom is gone from the atoms, the bonds and the molecules of the state
\* after the step
GoneAfter(a) ==
  /\ \A i \in DOMAIN atoms' : atoms'[i].id # a
  /\ \A i \in DOMAIN bonds' : bonds'[i].atomA # a /\ bonds'[i].atomB # a
  /\ \A i \in DOMAIN molecules' : a \notin Range(molecules'[i].atoms)

\* the atom is still in the list after the step, and is free or belongs to a
\* molecule that does not list a
FreeOrRegroupedAfter(b, a) ==
  /\ \E i \in DOMAIN atoms' : atoms'[i].id = b
  /\ \/ /\ ~AtomOf(atoms', b).isMoleculeMember
        /\ \A i \in DOMAIN molecules' : b \notin Range(molecules'[i].atoms)
     \/ \E i \in DOMAIN molecules' :
          /\ b \in Range(molecules'[i].atoms)
          /\ a \notin Range(molecules'[i].atoms)

DeleteAtomLeavesNothing ==
  last'.op = "deleteAtom" =>
    \E a \in {last'.deleted} :
       /\ GoneAfter(a)
       /\ \A i \in DOMAIN molecules :
            a \in Range(molecules[i].atoms) =>
              \A b \in Range(molecules[i].atoms) \ {a} : FreeOrRegroupedAfter(b, a)

\* C16: when deleteAtom(a) has returned, a is not in the atoms, no bond has
\* a as an endpoint, no molecule lists a, and every other atom of the
\* molecule that held a is free or belongs to a newly identified molecule
\* that does not hold a.
C16_DeleteAtomLeavesNothing == [][DeleteAtomLeavesNothing]_vars

\* ------------------------------------------------------------------------
\* canFormBond on two atoms of any proton count (SpecCanFormBond)
\* the energies canFormBond is called with: a negative one, none, one under
\* the floor of the activation energy (0.50), the floor (1.00), the decimal
\* value of the activation energy of two carbon atoms (1.13), one between the
\* floor and the activation energy of two hydrogen atoms (1.20), that
\* activation energy (1.36), one above every activation energy (10.00), and
\* the cap of the energy panel (100.00)
SystemEnergyChoices ==
  {Hundredths(x) : x \in {-500, 0, 50, 100, 113, 120, 136, 1000, 10000}}

\* two free atoms with proton counts inside and outside the catalog
InitCanFormBond ==
  /\ component = "mode"
  /\ \E pA, pB \in 0..MaxProtons :
        atoms = << [id |-> 0, protons |-> pA, neutrons |-> 0, isMoleculeMember |-> FALSE],
                   [id |-> 1, protons |-> pB, neutrons |-> 0, isMoleculeMember |-> FALSE] >>
  /\ transientHeatEnergy \in SystemEnergyChoices
  /\ nextId = 2
  /\ bonds = <<>>
  /\ molecules = <<>>
  /\ discoveredMolecules = <<>>
  /\ bondingCooldowns = {}
  /\ identifyTimers = 0
  /\ isPaused = FALSE
  /\ currentSimulationMode = "educational"
  /\ manualBondingMode = FALSE
  /\ selectedAtomsForBonding = <<>>
  /\ selectedAtom = firstAtomOrNull(atoms)
  /\ reactionInProgress = FALSE
  /\ bondingTransitions = {}
  /\ timers = {}
  /\ identifyOrigins = <<>>
  /\ brokenMolecule = NoMolecule
  /\ bodiesPlaced = FALSE
  /\ heatIntensity = 5
  /\ removedAtoms = <<>>
  /\ ticks = 0
  /\ last = [op |-> "init", returned |-> FALSE]

\* chemistryEngine.canFormBond(atomA, atomB, systemEnergy); the history keeps
\* what it returned
CanFormBondCalled ==
  /\ last.op = "init"
  /\ last' = [op |-> "canFormBond",
              returned |-> canFormBond(atoms[1], atoms[2], transientHeatEnergy)]
  /\ UNCHANGED <<coreVars, transientHeatEnergy, bondingCooldowns, identifyTimers,
                 uiVarsM, simVars, ticks>>

NextCanFormBond == CanFormBondCalled

SpecCanFormBond == InitCanFormBond /\ [][NextCanFormBond]_vars

\* the element is not in the catalog, or is one that makes no bond
Ineligible(protons) ==
  ~HasElement(protons) \/ CHEMICAL_ELEMENTS[protons].maxBonds = 0

\* C17: canFormBond returns false, whatever the system energy, when the
\* proton count of either atom has no entry in the element catalog or the
\* element of either atom has max-bonds 0; the call returns a value in every
\* such case.
C17_IneligibleNeverBonds ==
  (last.op = "canFormBond"
     /\ (Ineligible(atoms[1].protons) \/ Ineligible(atoms[2].protons)))
  => last.returned = FALSE

\* canFormBond has returned for a noble gas next to an atom that is not in
\* the catalog, with more energy than any activation energy
C17_NobleGasAndUnknownAsked ==
  /\ last.op = "canFormBond"
  /\ HasElement(atoms[1].protons)
  /\ CHEMICAL_ELEMENTS[atoms[1].protons].maxBonds = 0
  /\ ~HasElement(atoms[2].protons)
  /\ transientHeatEnergy = Hundredths(10000)
  /\ last.returned = FALSE

\* ------------------------------------------------------------------------
\* Two hydrogen molecules and an oxygen molecule in simulation.component.ts
\* (SpecWaterS)
\* attemptMoleculeMoleculeReactions: the molecules it hands to
\* performGenericMoleculeReaction, none when it hands over nothing.
\* nearMolecules holds the pairs of molecule ids closer than 10.
attemptMoleculeMoleculeReactions(moleculeList, nearMolecules, systemEnergy) ==
  LET h2 == h2Molecules(moleculeList)
      o2Molecules == SelectSeq(moleculeList, LAMBDA m : includes(m.name, "Oxygen Gas"))
      nearbyH2(o2) == SelectSeq(h2, LAMBDA m : {m.id, o2.id} \in nearMolecules)
      hits == {i \in DOMAIN o2Molecules :
                 Len(nearbyH2(o2Molecules[i])) >= 2
                 /\ systemEnergy >= Hundredths(1200)}
  IN IF Len(h2) >= 2 /\ Len(o2Molecules) >= 1 /\ hits # {}
     THEN LET o2 == o2Molecules[CHOOSE i \in hits : \A j \in hits : i <= j]
          IN SubSeq(nearbyH2(o2), 1, 2) \o <<o2>>
     ELSE <<>>

\* the atomic numbers of six atoms, four of hydrogen and two of oxygen, in
\* any order of creation
WaterElements ==
  {f \in [0..5 -> {1, 8}] : Cardinality({id \in 0..5 : f[id] = 1}) = 4}

\* three bonds that pair the six atoms, each atom with one of its element,
\* in any order of creation
WaterBonds(f) ==
  LET same == {[atomA |-> a, atomB |-> b] : a, b \in 0..5}
      pairs == {r \in same : r.atomA < r.atomB /\ f[r.atomA] = f[r.atomB]}
  IN {s \in [1..3 -> pairs] :
        \A i, j \in 1..3 :
           i # j => {s[i].atomA, s[i].atomB} \cap {s[j].atomA, s[j].atomB} = {}}

\* the free atoms and the bonds before identifyMolecules has seen them
WaterReactants(f, bondList) ==
  [atoms |-> [i \in 1..6 |->
                [id |-> i - 1, protons |-> f[i - 1], neutrons |-> 0, isMoleculeMember |-> FALSE]],
   bonds |-> bondList,
   molecules |-> <<>>, discoveredMolecules |-> <<>>, removed |-> <<>>,
             thrown |-> FALSE]

\* the scene after identifyMolecules has run on the three pairs
InitWaterS ==
  /\ component = "sim"
  /\ \E f \in WaterElements :
     \E bondList \in WaterBonds(f) :
     \E st \in {identifyMoleculesS(WaterReactants(f, bondList))} :
        /\ atoms = st.atoms
        /\ bonds = st.bonds
        /\ molecules = st.molecules
        /\ discoveredMolecules = st.discoveredMolecules
  /\ nextId = 6
  /\ transientHeatEnergy = 0
  /\ bondingCooldowns = {}
  /\ identifyTimers = 0
  /\ isPaused = FALSE
  /\ currentSimulationMode = "educational"
  /\ manualBondingMode = FALSE
  /\ selectedAtomsForBonding = <<>>
  /\ selectedAtom = firstAtomOrNull(atoms)
  /\ reactionInProgress = FALSE
  /\ bondingTransitions = {}
  /\ timers = {}
  /\ identifyOrigins = <<>>
  /\ brokenMolecule = NoMolecule
  /\ bodiesPlaced = FALSE
  /\ heatIntensity = 5
  /\ removedAtoms = <<>>
  /\ ticks = 0
  /\ last = NoHistory("init")

\* a frame with every molecule closer than 10 to every other one: animate
\* where attemptMoleculeMoleculeReactions hands over nothing
AnimateNearS ==
  \E due \in BOOLEAN :
     \E d \in DistChoices(ReadPairsS(due)),
        k \in (IF LooksAroundS(due) THEN KineticVals ELSE {0}),
        near \in NearChoicesS :
        /\ attemptMoleculeMoleculeReactions(
              molecules, PairsOf({m.id : m \in Range(molecules)}),
              decayS(transientHeatEnergy) + k) = <<>>
        /\ animateS(d, k, due, near)

\* the frames of the hot reactants, the heat slider, each recipe of the
\* catalog, and heat pulses at any moment
NextWaterS ==
  \/ AnimateNearS
  \/ \E val \in HeatIntensityChoices : heatIntensityChange(val)
  \/ \E recipe \in RecipeChoices : onRecipeSelected(recipe)
  \/ applyGlobalHeatPulse

\* requestAnimationFrame calls animate again after every frame
SpecWaterS ==
  /\ InitWaterS
  /\ [][NextWaterS]_vars
  /\ WF_vars(AnimateNearS)

\* the molecules made of the given numbers of hydrogen and oxygen atoms
MadeOf(hydrogens, oxygens) ==
  {i \in DOMAIN molecules :
     /\ Len(molecules[i].atoms) = hydrogens + oxygens
     /\ Cardinality({k \in DOMAIN molecules[i].atoms :
           AtomOf(Heap, molecules[i].atoms[k]).protons = 1}) = hydrogens
     /\ Cardinality({k \in DOMAIN molecules[i].atoms :
           AtomOf(Heap, molecules[i].atoms[k]).protons = 8}) = oxygens}

\* two molecules of two hydrogen atoms and one of two oxygen atoms are on
\* the list, the heat is above 20 and no reaction is going on
ReactantsHot ==
  /\ Cardinality(MadeOf(2, 0)) = 2
  /\ Cardinality(MadeOf(0, 2)) = 1
  /\ transientHeatEnergy > Hundredths(2000)
  /\ ~reactionInProgress

\* the six atoms are grouped into exactly two molecules of one oxygen and
\* two hydrogen atoms
TwoWaters ==
  /\ Len(molecules) = 2
  /\ Cardinality(MadeOf(2, 1)) = 2
  /\ \A id \in AtomIds : \E i \in DOMAIN molecules : id \in Range(molecules[i].atoms)

\* C18: in simulation.component.ts, two identified molecules of two
\* hydrogen atoms and one identified molecule of two oxygen atoms within the
\* reaction proximity, with the heat above the reaction threshold and the
\* system energy covering the cost, lead to the completed reaction: the six
\* atoms grouped into exactly two molecules of one oxygen and two hydrogens.
C18_WaterReactionCompletes == ReactantsHot ~> TwoWaters

\* no frame is left out of SpecWaterS: whatever the kinetic term, the
\* molecule-molecule reactions hand nothing over
NoMoleculeReactionSelected ==
  \A k \in KineticVals :
     attemptMoleculeMoleculeReactions(
       molecules, PairsOf({m.id : m \in Range(molecules)}),
       decayS(transientHeatEnergy) + k) = <<>>

\* ------------------------------------------------------------------------
\* The reaction lock when the timers fire (SpecReactTimersS)
\* every setTimeout that was set fires: the three timers of a staged reaction
\* are not left pending for ever
\* FinishTimerS as the pending timers see it: the last timer of a reaction
\* leaves them.  No other step of NextReactS takes a timer away and sets none.
FinishTimerFiresS ==
  \E t \in timers : t.kind = "finish" /\ timers' = timers \ {t}

SpecReactTimersS ==
  /\ InitS
  /\ [][NextReactS]_vars
  /\ WF_vars(CreateOptimalTimerS)
  /\ WF_vars(CreateBondsTimerS)
  /\ WF_timers(FinishTimerFiresS)

\* C19: whenever reactionInProgress is set it is cleared later on, given
\* that the timers that were set fire; from then on a frame can attempt the
\* reaction that was rejected while the lock was held.
C19_LockEventuallyCleared == reactionInProgress ~> ~reactionInProgress

\* ------------------------------------------------------------------------
\* The reaction lock on a scene of six atoms (SpecCarbonS)
\* ------------------------------------------------------------------------
\* atoms of the scene of SpecCarbonS: a carbon atom and five hydrogen atoms
MaxCarbonAtoms == 6

\* the distances of the hydrogen atoms from the carbon atom in the frames of
\* SpecCarbonS: under the bond threshold 3.5, and out of every reach
BipyramidRadii == {340, 1100}

\* the scene of SpecCarbonS with the atoms after the first on a trigonal
\* bipyramid of radius r around the first: the second and the third on the
\* axis (2 r apart), the others on the equator (r * sqrt(3) apart, and
\* r * sqrt(2) from the two on the axis)
Bipyramid(r) ==
  [p \in PairsOf(AtomIds) |->
     IF atoms[1].id \in p THEN r
     ELSE IF p = {atoms[2].id, atoms[3].id} THEN 2 * r
     ELSE IF p \cap {atoms[2].id, atoms[3].id} # {} THEN (r * 1414) \div 1000
     ELSE (r * 1732) \div 1000]

\* a frame on the scene of six atoms, the first of them carbon, while no
\* molecule stands among them
AnimateBipyramidS ==
  /\ Len(atoms) = MaxCarbonAtoms
  /\ atoms[1].protons = 6
  /\ molecules = <<>>
  /\ transientHeatEnergy > 0 => ticks < MaxTicks
  /\ \E due \in BOOLEAN, r \in BipyramidRadii :
        \E k \in (IF LooksAroundS(due) THEN KineticVals ELSE {0}),
           near \in NearChoicesS :
           animateS([p \in ReadPairsS(due) |-> Bipyramid(r)[p]], k, due, near)

\* simulation.component.ts from its two hydrogen atoms to a carbon atom and
\* five hydrogen atoms: the periodic table on the selected atom while the
\* scene has its two atoms, addAtom, the heat slider and a pulse on the six
\* atoms while the scene has no heat, the frames of the six atoms up to the
\* first that decays the heat, the gradual bonds and the timers.  No frame
\* runs with a molecule in the scene, so that the only reaction a frame
\* starts is the combination of three free atoms, which sets the timer of
\* the bonds.
NextCarbonS ==
  \/ (Len(atoms) = 2 /\ onElementSelectS(6))
  \/ addAtomWithin(MaxCarbonAtoms, MaxCarbonAtoms)
  \/ (Len(atoms) = MaxCarbonAtoms /\ transientHeatEnergy = 0
        /\ \E val \in HeatIntensityChoices : heatIntensityChange(val))
  \/ (Len(atoms) = MaxCarbonAtoms /\ transientHeatEnergy = 0
        /\ applyGlobalHeatPulse)
  \/ AnimateBipyramidS
  \/ GradualBondCompleteS
  \/ IdentifyTimerS
  \/ CreateBondsTimerS
  \/ FinishTimerS

\* the two timers of the combination fire
SpecCarbonS ==
  /\ InitS
  /\ [][NextCarbonS]_vars
  /\ WF_vars(CreateBondsTimerS)
  /\ WF_timers(FinishTimerFiresS)

\* ------------------------------------------------------------------------
\* Atom ids
\* the atoms of the list are in the order of their creation, each with a
\* higher id than the one before, and nextId is above every id
IdsIncreasing ==
  /\ \A i, j \in DOMAIN atoms : i < j => atoms[i].id < atoms[j].id
  /\ \A i \in DOMAIN atoms : atoms[i].id < nextId

\* nextId never goes back, and an atom that was not on the list before the
\* step has an id that nextId had not reached: the id of no atom created
\* before, deleted or cleared ones included
NewIdsAreFresh ==
  /\ nextId' >= nextId
  /\ \A i \in DOMAIN atoms' :
        atoms'[i].id \notin AtomIds => (nextId <= atoms'[i].id /\ atoms'[i].id < nextId')

\* C20: atom ids are unique and strictly increasing in the order of creation:
\* no two atoms ever created share an id, also after atoms were deleted and
\* after the simulation was cleared or reset.
C20_IdsUniqueIncreasing == []IdsIncreasing /\ [][NewIdsAreFresh]_vars

\* an experiment was loaded over the atoms of an experiment loaded before:
\* the ids 0 to 3 are gone, and the new atoms have the ids 4 and 5
C20_LoadedAfterClear ==
  /\ last.op = "loadExperimentAtoms"
  /\ AtomIds = {4, 5}
  /\ nextId = 6

\* ------------------------------------------------------------------------
\* canFormBond on atoms that have bonds (SpecBonded)
\* MaxAtoms free atoms with the ids 0, 1, ... in this order, any bond list
\* between them and any of the energies
InitBonded ==
  /\ component = "mode"
  /\ \E f \in [1..MaxAtoms -> ElementChoicesI] :
        atoms = [i \in 1..MaxAtoms |->
                   [id |-> i - 1, protons |-> f[i], neutrons |-> 0, isMoleculeMember |-> FALSE]]
  /\ bonds \in BondLists(atoms)
  /\ transientHeatEnergy \in SystemEnergyChoices
  /\ nextId = MaxAtoms
  /\ molecules = <<>>
  /\ discoveredMolecules = <<>>
  /\ bondingCooldowns = {}
  /\ identifyTimers = 0
  /\ isPaused = FALSE
  /\ currentSimulationMode = "educational"
  /\ manualBondingMode = FALSE
  /\ selectedAtomsForBonding = <<>>
  /\ selectedAtom = firstAtomOrNull(atoms)
  /\ reactionInProgress = FALSE
  /\ bondingTransitions = {}
  /\ timers = {}
  /\ identifyOrigins = <<>>
  /\ brokenMolecule = NoMolecule
  /\ bodiesPlaced = FALSE
  /\ heatIntensity = 5
  /\ removedAtoms = <<>>
  /\ ticks = 0
  /\ last = [op |-> "init", returned |-> FALSE, atomA |-> 0, atomB |-> 0]

\* chemistryEngine.canFormBond on two atoms of the list; the history keeps
\* the two ids and what it returned
CanFormBondOnPair ==
  /\ last.op = "init"
  /\ \E i, j \in DOMAIN atoms :
        /\ i # j
        /\ last' = [op |-> "canFormBond",
                    returned |-> canFormBond(atoms[i], atoms[j], transientHeatEnergy),
                    atomA |-> atoms[i].id, atomB |-> atoms[j].id]
  /\ UNCHANGED <<coreVars, transientHeatEnergy, bondingCooldowns, identifyTimers,
                 uiVarsM, simVars, ticks>>

NextBonded == CanFormBondOnPair

SpecBonded == InitBonded /\ [][NextBonded]_vars

\* the atom has as many bond records as its element allows, or more
Saturated(id) ==
  /\ HasElement(AtomOf(atoms, id).protons)
  /\ countAtomBonds(bonds, id) >= CHEMICAL_ELEMENTS[AtomOf(atoms, id).protons].maxBonds

\* C21: canFormBond returns false whenever the number of bonds either atom
\* has is greater than or equal to the max-bonds of its element, whatever
\* the system energy.
C21_SaturatedNeverBonds ==
  (last.op = "canFormBond" /\ (Saturated(last.atomA) \/ Saturated(last.atomB)))
  => last.returned = FALSE

\* ------------------------------------------------------------------------
\* The activation energy
\* systemEnergy is at least 1 and at least (average ionization energy) *
\* (1 - |electronegativity difference| / 4) * 0.1.  With the ionization
\* energies in tenths and the electronegativities in hundredths, the second
\* number is (ieA + ieB) * (400 - diff) * 125 energy units.  For the pairs
\* of activationEnergyRoundedUp the double the program computes lies one
\* rounding step above that number, so an energy equal to it is too little.
CoversActivation(protonsA, protonsB, systemEnergy) ==
  LET ieA == CHEMICAL_ELEMENTS[protonsA].ionizationEnergy
      ieB == CHEMICAL_ELEMENTS[protonsB].ionizationEnergy
      enA == CHEMICAL_ELEMENTS[protonsA].electronegativity
      enB == CHEMICAL_ELEMENTS[protonsB].electronegativity
      diff == IF enA >= enB THEN enA - enB ELSE enB - enA
      product == (ieA + ieB) * (400 - diff) * 125
      pair == <<Min2(protonsA, protonsB), Max2(protonsA, protonsB)>>
  IN /\ systemEnergy >= Hundredths(100)
     /\ \/ systemEnergy > product
        \/ systemEnergy = product /\ pair \notin activationEnergyRoundedUp

\* C22: for two atoms of known elements with max-bonds above 0 and no bond
\* yet, canFormBond is true exactly when the system energy is at least the
\* activation energy: the larger of 1 and the average ionization energy of
\* the two elements times (1 - |electronegativity difference| / 4) times 0.1,
\* the product being the double the program computes.
C22_BondIffActivationCovered ==
  (last.op = "canFormBond" /\ bonds = <<>>
     /\ ~Ineligible(atoms[1].protons) /\ ~Ineligible(atoms[2].protons))
  => (last.returned
        <=> CoversActivation(atoms[1].protons, atoms[2].protons, transientHeatEnergy))

\* canFormBond has refused lithium and fluorine at 0.50: more than
\* 11.4 * (1 - 3.00 / 4) * 0.1 = 0.285, and less than the floor of 1
C22_RefusedUnderFloor ==
  /\ last.op = "canFormBond"
  /\ atoms[1].protons = 3
  /\ atoms[2].protons = 9
  /\ transientHeatEnergy = Hundredths(50)
  /\ ~last.returned

\* ------------------------------------------------------------------------
\* Molecule ids of atoms with ids of one and two digits (SpecMoleculeId)
\* the ids of the atoms on the scene: one and two digits
IdChoices == {1, 2, 9, 10, 11}

\* the lists of two or three distinct ids
IdLists ==
  UNION {{s \in [1..n -> IdChoices] : \A i, j \in 1..n : i # j => s[i] # s[j]} :
           n \in 2..3}

\* hydrogen atoms with the listed ids, each bonded to the next one of the
\* list, in either component
InitMoleculeId ==
  /\ component \in {"mode", "sim"}
  /\ \E ids \in IdLists :
        /\ atoms = [i \in DOMAIN ids |->
                      [id |-> ids[i], protons |-> 1, neutrons |-> 0, isMoleculeMember |-> FALSE]]
        /\ bonds = [i \in 1..(Len(ids) - 1) |->
                      [atomA |-> ids[i], atomB |-> ids[i + 1]]]
  /\ nextId = 12
  /\ molecules = <<>>
  /\ discoveredMolecules = <<>>
  /\ transientHeatEnergy = 0
  /\ bondingCooldowns = {}
  /\ identifyTimers = 0
  /\ isPaused = FALSE
  /\ currentSimulationMode = "educational"
  /\ manualBondingMode = FALSE
  /\ selectedAtomsForBonding = <<>>
  /\ selectedAtom = firstAtomOrNull(atoms)
  /\ reactionInProgress = FALSE
  /\ bondingTransitions = {}
  /\ timers = {}
  /\ identifyOrigins = <<>>
  /\ brokenMolecule = NoMolecule
  /\ bodiesPlaced = FALSE
  /\ heatIntensity = 5
  /\ removedAtoms = <<>>
  /\ ticks = 0
  /\ last = [op |-> "init", atoms |-> atoms, bonds |-> bonds]

SpecMoleculeId == InitMoleculeId /\ [][NextIdentify]_vars

\* the ids in ascending numeric order, joined by '-'
AscendingId(ids) ==
  LET sorted == SortStable(ids, LAMBDA a, b : a < b)
  IN Join([k \in DOMAIN sorted |-> ToString(sorted[k])], "-")

\* C23: the id given to a molecule is the list of the ids of its member
\* atoms in ascending numeric order joined by '-', for every member set and
\* for atom ids of any number of digits.
C23_IdIsAscendingIds ==
  last.op = "identifyMolecules" =>
    \A i \in DOMAIN molecules : molecules[i].id = AscendingId(molecules[i].atoms)

\* ------------------------------------------------------------------------
\* identifyMolecules after a change of the bond set
\* the operations that call identifyMolecules themselves
IdentifyingOps ==
  {"identifyTimer", "identifyMolecules", "deleteAtom", "createManualBond",
   "onElementSelect"}

\* a step that adds or removes a bond record runs identifyMolecules itself,
\* or leaves a continuation pending that will: an identifyMolecules timer,
\* or a timer of a staged reaction, which ends in identifyMolecules
BondChangeIdentified ==
  bonds' # bonds =>
    \/ last'.op \in IdentifyingOps
    \/ identifyTimers' > 0
    \/ timers' # {}

\* C24: after every addition or removal of a bond record, by any path,
\* identifyMolecules runs, within the same operation or through a
\* continuation that operation scheduled, without any further change to the
\* bond set.
C24_BondChangeIdentified == [][BondChangeIdentified]_vars

\* ------------------------------------------------------------------------
\* identifyMoleculeType of the mode-based component (SpecMoleculeType)
\* the atomic numbers of the components: the four elements of the table of
\* known molecules, and fluorine
TypeElements == {1, 6, 7, 8, 9}

\* a component of two to MaxTypeAtoms atoms, in any order
InitMoleculeType ==
  /\ component = "mode"
  /\ \E n \in 2..MaxTypeAtoms :
     \E f \in [1..n -> TypeElements] :
        atoms = [i \in 1..n |->
                   [id |-> i - 1, protons |-> f[i], neutrons |-> 0, isMoleculeMember |-> FALSE]]
  /\ nextId = Len(atoms)
  /\ bonds = <<>>
  /\ molecules = <<>>
  /\ discoveredMolecules = <<>>
  /\ transientHeatEnergy = 0
  /\ bondingCooldowns = {}
  /\ identifyTimers = 0
  /\ isPaused = FALSE
  /\ currentSimulationMode = "educational"
  /\ manualBondingMode = FALSE
  /\ selectedAtomsForBonding = <<>>
  /\ selectedAtom = firstAtomOrNull(atoms)
  /\ reactionInProgress = FALSE
  /\ bondingTransitions = {}
  /\ timers = {}
  /\ identifyOrigins = <<>>
  /\ brokenMolecule = NoMolecule
  /\ bodiesPlaced = FALSE
  /\ heatIntensity = 5
  /\ removedAtoms = <<>>
  /\ ticks = 0
  /\ last = [op |-> "init", returned |-> [name |-> "", geometry |-> ""]]

\* identifyMoleculeType(atoms); the history keeps what it returned
IdentifyMoleculeTypeCalled ==
  /\ last.op = "init"
  /\ last' = [op |-> "identifyMoleculeType", returned |-> identifyMoleculeTypeM(atoms)]
  /\ UNCHANGED <<coreVars, transientHeatEnergy, bondingCooldowns, identifyTimers,
                 uiVarsM, simVars, ticks>>

NextMoleculeType == IdentifyMoleculeTypeCalled

SpecMoleculeType == InitMoleculeType /\ [][NextMoleculeType]_vars

\* the number of atoms of the component with the atomic number
InComponent(protons) ==
  Cardinality({i \in DOMAIN atoms : atoms[i].protons = protons})

\* the component is made of exactly the given numbers of H, C, N and O atoms
Composition(h, c, n, o) ==
  /\ InComponent(1) = h /\ InComponent(6) = c
  /\ InComponent(7) = n /\ InComponent(8) = o
  /\ Len(atoms) = h + c + n + o

KnownNames ==
  {"Water (H₂O)", "Carbon Dioxide (CO₂)", "Methane (CH₄)", "Ammonia (NH₃)",
   "Hydrogen Gas (H₂)", "Oxygen Gas (O₂)", "Nitrogen Gas (N₂)"}

\* the name and the geometry the table of known molecules gives the component
TableEntry ==
  CASE Composition(2, 0, 0, 1) -> [name |-> "Water (H₂O)", geometry |-> "bent"]
    [] Composition(0, 1, 0, 2) -> [name |-> "Carbon Dioxide (CO₂)", geometry |-> "linear"]
    [] Composition(4, 1, 0, 0) -> [name |-> "Methane (CH₄)", geometry |-> "tetrahedral"]
    [] Composition(3, 0, 1, 0) ->
         [name |-> "Ammonia (NH₃)", geometry |-> "trigonal_pyramidal"]
    [] Composition(2, 0, 0, 0) -> [name |-> "Hydrogen Gas (H₂)", geometry |-> "linear"]
    [] Composition(0, 0, 0, 2) -> [name |-> "Oxygen Gas (O₂)", geometry |-> "linear"]
    [] Composition(0, 0, 2, 0) -> [name |-> "Nitrogen Gas (N₂)", geometry |-> "linear"]
    [] OTHER -> [name |-> "", geometry |-> "complex"]

\* the atoms of the component in the order of their atomic numbers
ByAtomicNumber == SortStable(atoms, LAMBDA a, b : a.protons < b.protons)

\* C25: in the mode-based component identifyMoleculeType returns the name
\* and the geometry of the table for each known composition (1 O + 2 H, 1 C +
\* 2 O, 1 C + 4 H, 1 N + 3 H, 2 H, 2 O, 2 N) and a generated name with the
\* geometry complex for every other composition; the result depends only on
\* the multiset of the atomic numbers of the component.
C25_TypeFromComposition ==
  last.op = "identifyMoleculeType" =>
    /\ last.returned.geometry = TableEntry.geometry
    /\ IF TableEntry.name # "" THEN last.returned.name = TableEntry.name
       ELSE last.returned.name \notin KnownNames
    /\ last.returned = identifyMoleculeTypeM(ByAtomicNumber)

\* identifyMoleculeType has named a component of five atoms that holds two
\* hydrogen atoms, an oxygen atom and two fluorine atoms, in an order that is
\* not the order of the atomic numbers
C25_UnknownCompositionNamed ==
  /\ last.op = "identifyMoleculeType"
  /\ Len(atoms) = 5
  /\ InComponent(1) = 2 /\ InComponent(8) = 1 /\ InComponent(9) = 2
  /\ atoms[1].protons = 9 /\ atoms[5].protons = 1
  /\ last.returned.geometry = "complex"
\* ------------------------------------------------------------------------
\* Internal bonds of a materialised molecule (SpecIdentify)
\* ------------------------------------------------------------------------

\* a bond record joins two atoms of the molecule m
InternalBond(b, m) == b.atomA \in Range(m.atoms) /\ b.atomB \in Range(m.atoms)

\* the molecules a step adds to the list
MaterialisedMolecules == {m \in Range(molecules') : m \notin Range(molecules)}

NoInternalBondLeft ==
  \A m \in MaterialisedMolecules :
     \A i \in DOMAIN bonds' : ~InternalBond(bonds'[i], m)

\* C26: when identifyMolecules materialises a molecule, the bond set it
\* leaves holds no bond record between two member atoms of that molecule
C26_InternalBondsRemoved == [][NoInternalBondLeft]_vars

\* identifyMolecules has made a molecule of three atoms out of a scene that
\* held three bonds, a ring among them
C26_RingMaterialised ==
  /\ last.op = "identifyMolecules"
  /\ Len(last.bonds) = 3
  /\ \E m \in DOMAIN molecules : Len(molecules[m].atoms) = 3
  /\ bonds = <<>>

\* ------------------------------------------------------------------------
\* The cooldown of the scan (SpecM)
\* ------------------------------------------------------------------------
\* animate runs once per display frame and the throttle lets the scan run
\* every bondCheckInterval = 100 ms, so two frames that follow each other with
\* no cooldown elapsing between them are less than a window apart
NotEvaluatedTwiceInARow ==
  (last.op = "animate" /\ last'.op = "animate")
  => last.evaluated \cap last'.evaluated = {}

\* C27: after the scan has evaluated the eligibility of a pair, whether it
\* passed or failed, the scan does not evaluate that pair again before the
\* cooldown window has elapsed
C27_NoEvaluationWithinWindow == [][NotEvaluatedTwiceInARow]_vars

\* ------------------------------------------------------------------------
\* What runs while the reaction lock is held (simulation.component.ts)
\* ------------------------------------------------------------------------
\* a frame that finds the lock held: checkAndCreateBonds writes no cooldown
\* and starts no gradual bond, attemptMolecularReactions starts no reaction
\* and leaves the heat to the decay
LockedFrameIdle ==
  (component = "sim" /\ reactionInProgress /\ last'.op = "animate") =>
     /\ bondingCooldowns' = bondingCooldowns
     /\ bondingTransitions' = bondingTransitions
     /\ last'.reaction = "none"
     /\ last'.requests = {}
     /\ timers' = timers
     /\ transientHeatEnergy' = decayS(transientHeatEnergy)

\* a step that fires a timer of the reaction in flight
OwnContinuation == timers' # timers

\* addAtom, onElementSelect and deleteAtom
UserCommand ==
  \/ nextId' # nextId
  \/ last'.op \in {"onElementSelect", "deleteAtom"}

\* with the lock held, the three collections change only in a continuation
\* of the reaction in flight or in a user command
LockedChangeIsOwn ==
  (component = "sim" /\ reactionInProgress
     /\ <<atoms, bonds, molecules>>' # <<atoms, bonds, molecules>>)
  => (OwnContinuation \/ UserCommand)

\* C28: while reactionInProgress is true, checkAndCreateBonds and
\* attemptMolecularReactions change nothing, and the atoms, the bonds and the
\* molecules are changed only by the continuations of the reaction in flight
\* and by user commands
C28_LockedCollectionsOwnOnly ==
  /\ [][LockedFrameIdle]_vars
  /\ [][LockedChangeIsOwn]_vars

\* the first half of C28 alone
C28_LockedFrameIdleOnly == [][LockedFrameIdle]_vars

\* ------------------------------------------------------------------------
\* The heat a reaction pays (SpecReactS)
\* ------------------------------------------------------------------------
\* the heat after the step is what a positive cost leaves of the given
\* amount, floored at 0
PaidFrom(before) ==
  \/ transientHeatEnergy' = 0
  \/ (0 < transientHeatEnergy' /\ transientHeatEnergy' < before)

\* the frame pushed the bond of a two-atom combination, or made an atom join
\* a molecule: the cost is taken in the frame, from the decayed heat
ReactionInFrame ==
  /\ component = "sim"
  /\ last'.op = "animate"
  /\ \/ last'.reaction = "atomMolecule"
     \/ (last'.reaction = "twoAtom" /\ last'.added # {})

\* the continuation of createOptimalMolecularStructure pushed the bonds of a
\* three-atom combination or of a rebuilt molecule: the cost is taken there
BondsOfReactionCreated ==
  /\ component = "sim"
  /\ \E t \in timers : t.kind = "createBonds" /\ t \notin timers'
  /\ bonds' # bonds

ReactionPaysHeat ==
  /\ ReactionInFrame => PaidFrom(decayS(transientHeatEnergy))
  /\ BondsOfReactionCreated => PaidFrom(transientHeatEnergy)

\* C29: every successful reaction (molecule + molecule, atom + molecule, two
\* atoms, three atoms) takes a positive cost of its own from
\* transientHeatEnergy, and the result is floored at 0
C29_ReactionPaysHeat == [][ReactionPaysHeat]_vars

\* ------------------------------------------------------------------------
\* Frames while paused or without autoReactions (SpecManualM)
\* ------------------------------------------------------------------------
\* the mode-based component on the scene of the two hydrogen atoms: frames and
\* timers, pause, the three modes and manual bonding; the kinetic energy of
\* the free atoms is the system energy
NextManualM ==
  \/ AnimateM
  \/ IdentifyTimerM
  \/ CooldownElapsedM
  \/ togglePause
  \/ \E mode \in SimulationModes : onModeChanged(mode)
  \/ toggleManualBondingMode
  \/ HandleManualBondSelection

SpecManualM == InitM /\ [][NextManualM]_vars

\* the modes whose preset has reactions.autoReactions: false
ModesWithoutAutoReactions == {"sandbox"}

\* the scan of the frame is off: paused, or a mode without autoReactions
ScanOff == isPaused \/ currentSimulationMode \in ModesWithoutAutoReactions

\* the step pushed a bond record
BondAdded ==
  \/ last'.added # {}
  \/ \E b \in Range(bonds') : b \notin Range(bonds)

ScanOffAddsNoBond ==
  (component = "mode" /\ ScanOff) =>
     /\ last'.op = "animate" => ~BondAdded
     /\ BondAdded => last'.op = "createManualBond"

\* C30: in the mode-based component, while the simulation is paused or the
\* mode has autoReactions disabled, a frame adds no bond record, and a bond
\* record is added only by a manual bond request
C30_ScanOffAddsNoBond == [][ScanOffAddsNoBond]_vars

\* a frame ran in sandbox mode, unpaused, on the two free hydrogen atoms: its
\* scan did not run, and the atoms are unbonded
C30_SandboxFrameLeftAtomsFree ==
  /\ component = "mode"
  /\ last.op = "animate"
  /\ ~last.scanned
  /\ currentSimulationMode = "sandbox"
  /\ ~isPaused
  /\ Len(atoms) = 2
  /\ \A i \in DOMAIN atoms : atoms[i].protons = 1 /\ ~atoms[i].isMoleculeMember
  /\ bonds = <<>>

\* ------------------------------------------------------------------------
\* findOptimalCentralAtom on lists of atoms (SpecCentralAtom)
\* ------------------------------------------------------------------------
\* hydrogen, carbon, oxygen, fluorine, silicon, and potassium, which the
\* catalog does not hold
CentralElements == {1, 6, 8, 9, 14, MaxProtons}

\* one to MaxAtoms free atoms with the ids 0, 1, ... in list order
InitCentralAtom ==
  /\ component = "sim"
  /\ \E n \in 1..MaxAtoms :
        atoms \in [1..n -> [id : 0..(n - 1), protons : CentralElements, neutrons : {0},
                            isMoleculeMember : {FALSE}]]
  /\ \A i \in DOMAIN atoms : atoms[i].id = i - 1
  /\ nextId = Len(atoms)
  /\ bonds = <<>>
  /\ molecules = <<>>
  /\ discoveredMolecules = <<>>
  /\ transientHeatEnergy = 0
  /\ bondingCooldowns = {}
  /\ identifyTimers = 0
  /\ isPaused = FALSE
  /\ currentSimulationMode = "educational"
  /\ manualBondingMode = FALSE
  /\ selectedAtomsForBonding = <<>>
  /\ selectedAtom = firstAtomOrNull(atoms)
  /\ reactionInProgress = FALSE
  /\ bondingTransitions = {}
  /\ timers = {}
  /\ identifyOrigins = <<>>
  /\ brokenMolecule = NoMolecule
  /\ bodiesPlaced = FALSE
  /\ heatIntensity = 5
  /\ removedAtoms = <<>>
  /\ ticks = 0
  /\ last = [op |-> "init", returned |-> -1]

\* findOptimalCentralAtom(atoms); the history keeps the id of the atom it
\* returned
FindOptimalCentralAtomCalled ==
  /\ last.op = "init"
  /\ last' = [op |-> "findOptimalCentralAtom",
              returned |-> findOptimalCentralAtom(atoms).id]
  /\ UNCHANGED <<coreVars, transientHeatEnergy, bondingCooldowns, identifyTimers,
                 uiVarsM, simVars, ticks>>

NextCentralAtom == FindOptimalCentralAtomCalled

SpecCentralAtom == InitCentralAtom /\ [][NextCentralAtom]_vars

\* max-bonds minus electronegativity, in hundredths
CentralScore(protons) ==
  100 * CHEMICAL_ELEMENTS[protons].maxBonds
  - CHEMICAL_ELEMENTS[protons].electronegativity

\* the positions of the atoms that have a catalog entry
Catalogued == {i \in DOMAIN atoms : HasElement(atoms[i].protons)}

\* the atom at position i is the first of the catalogued atoms with the
\* highest score
FirstOfBest(i) ==
  /\ i \in Catalogued
  /\ \A j \in Catalogued :
        /\ CentralScore(atoms[j].protons) <= CentralScore(atoms[i].protons)
        /\ CentralScore(atoms[j].protons) = CentralScore(atoms[i].protons)
              => i <= j

\* C31: findOptimalCentralAtom returns an atom whose score (max-bonds minus
\* electronegativity) is maximal among the atoms of the list that have a
\* catalog entry, and the first of the list among those with that score
C31_CentralIsFirstOfBest ==
  (last.op = "findOptimalCentralAtom" /\ Catalogued # {})
  => \E i \in DOMAIN atoms : atoms[i].id = last.returned /\ FirstOfBest(i)

\* the same for the lists whose first atom has a catalog entry
CentralIsFirstOfBestKnownFirst ==
  (last.op = "findOptimalCentralAtom" /\ 1 \in Catalogued)
  => \E i \in DOMAIN atoms : atoms[i].id = last.returned /\ FirstOfBest(i)

\* ------------------------------------------------------------------------
\* The centre of a materialised molecule, mode-based component (SpecGeometryM)
\* ------------------------------------------------------------------------
\* createMolecule on a component: identifyMoleculeType names it and
\* calculateMolecularGeometry places its atoms; the history keeps the name
\* and the id of the atom at the centre
CalculateMolecularGeometryCalled ==
  /\ last.op = "init"
  /\ \E info \in {identifyMoleculeTypeM(atoms)} :
        last' = [op |-> "calculateMolecularGeometry", returned |-> info,
                 centre |-> centralAtomOfGeometry(atoms, info.geometry)]
  /\ UNCHANGED <<coreVars, transientHeatEnergy, bondingCooldowns, identifyTimers,
                 uiVarsM, simVars, ticks>>

NextGeometryM == CalculateMolecularGeometryCalled

SpecGeometryM == InitMoleculeType /\ [][NextGeometryM]_vars

\* the atom at the centre of the molecule has the given atomic number
CentreIs(protons) ==
  \E i \in DOMAIN atoms : atoms[i].id = last.centre /\ atoms[i].protons = protons

\* C32: in the mode-based component the atom at the centre of a materialised
\* known molecule is the oxygen for Water, the carbon for Carbon Dioxide and
\* for Methane, and the nitrogen for Ammonia
C32_CentreAsHinted ==
  last.op = "calculateMolecularGeometry" =>
     /\ last.returned.name = "Water (H₂O)" => CentreIs(8)
     /\ last.returned.name = "Carbon Dioxide (CO₂)" => CentreIs(6)
     /\ last.returned.name = "Methane (CH₄)" => CentreIs(6)
     /\ last.returned.name = "Ammonia (NH₃)" => CentreIs(7)

\* the same without Carbon Dioxide
CentreAsHintedButCO2 ==
  last.op = "calculateMolecularGeometry" =>
     /\ last.returned.name = "Water (H₂O)" => CentreIs(8)
     /\ last.returned.name = "Methane (CH₄)" => CentreIs(6)
     /\ last.returned.name = "Ammonia (NH₃)" => CentreIs(7)

\* ------------------------------------------------------------------------
\* calculateMolecularPositions on lists of atoms (SpecPositions)
\* ------------------------------------------------------------------------
\* the tags determineGeometry returns, and one it does not
GeometryTags ==
  {"atomic", "linear", "bent", "trigonal_planar", "tetrahedral",
   "trigonal_pyramidal", "trigonal_bipyramidal", "seesaw", "T_shaped",
   "octahedral", "square_pyramidal", "square_planar", "complex", "unknown",
   "ring"}

\* one to MaxPlacedAtoms atoms of hydrogen and carbon with the ids 0, 1, ...
\* in list order, and a geometry tag
InitPositions ==
  /\ component = "sim"
  /\ \E n \in 1..MaxPlacedAtoms :
     \E f \in [1..n -> {1, 6}] :
        atoms = [i \in 1..n |->
                   [id |-> i - 1, protons |-> f[i], neutrons |-> 0, isMoleculeMember |-> FALSE]]
  /\ nextId = Len(atoms)
  /\ bonds = <<>>
  /\ molecules = <<>>
  /\ discoveredMolecules = <<>>
  /\ transientHeatEnergy = 0
  /\ bondingCooldowns = {}
  /\ identifyTimers = 0
  /\ isPaused = FALSE
  /\ currentSimulationMode = "educational"
  /\ manualBondingMode = FALSE
  /\ selectedAtomsForBonding = <<>>
  /\ selectedAtom = firstAtomOrNull(atoms)
  /\ reactionInProgress = FALSE
  /\ bondingTransitions = {}
  /\ timers = {}
  /\ identifyOrigins = <<>>
  /\ brokenMolecule = NoMolecule
  /\ bodiesPlaced = FALSE
  /\ heatIntensity = 5
  /\ removedAtoms = <<>>
  /\ ticks = 0
  /\ \E g \in GeometryTags : last = [op |-> "init", geometry |-> g, placed |-> {}]

\* calculateMolecularPositions(atoms, geometry, bondLength); the history
\* keeps the ids that have a position in the returned Map
CalculateMolecularPositionsCalled ==
  /\ last.op = "init"
  /\ last' = [op |-> "calculateMolecularPositions", geometry |-> last.geometry,
              placed |-> calculateMolecularPositions(atoms, last.geometry)]
  /\ UNCHANGED <<coreVars, transientHeatEnergy, bondingCooldowns, identifyTimers,
                 uiVarsM, simVars, ticks>>

NextPositions == CalculateMolecularPositionsCalled

SpecPositions == InitPositions /\ [][NextPositions]_vars

\* C33: calculateMolecularPositions returns an offset for every atom of its
\* input list, for every geometry tag and every number of atoms, so that
\* createAdvancedMolecule finds a position for each atom it places
C33_EveryAtomPlaced ==
  last.op = "calculateMolecularPositions" => last.placed = AtomIds

\* the same for the tag identifyMolecules computes for the list and hands to
\* createAdvancedMolecule
EveryAtomPlacedForOwnGeometry ==
  (last.op = "calculateMolecularPositions"
     /\ last.geometry = calculateOptimalBondingStructure(atoms).geometry)
  => last.placed = AtomIds

\* ------------------------------------------------------------------------
\* Bonds and molecule members, mode-based component (SpecM)
\* ------------------------------------------------------------------------
\* C34: in the mode-based component no bond record of the bond set has an
\* end whose isMoleculeMember flag is true, in any state reached by atom
\* selections for manual bonding, scans and delayed identifications
C34_NoBondOnMember ==
  component = "mode" =>
     \A b \in Range(bonds) :
        \A i \in DOMAIN atoms :
           atoms[i].id \in {b.atomA, b.atomB} => ~atoms[i].isMoleculeMember

\* ------------------------------------------------------------------------
\* Water from one oxygen and two hydrogens, mode-based component (SpecWaterM)
\* ------------------------------------------------------------------------
\* the three orders of one oxygen and two hydrogen atoms in the atom list
WaterOrders == {<<8, 1, 1>>, <<1, 8, 1>>, <<1, 1, 8>>}

\* the kinetic term of moving bodies, 1.5, above the activation energy of
\* H-H (1.36) and of O-H (1.0)
SufficientKinetic == CHOOSE k \in KineticVals : k > 0

\* the three atoms free, in one of the orders, in the educational mode
InitWaterM ==
  /\ component = "mode"
  /\ \E f \in WaterOrders :
        atoms = [i \in 1..3 |->
                   [id |-> i - 1, protons |-> f[i], neutrons |-> 0, isMoleculeMember |-> FALSE]]
  /\ nextId = 3
  /\ bonds = <<>>
  /\ molecules = <<>>
  /\ discoveredMolecules = <<>>
  /\ transientHeatEnergy = 0
  /\ bondingCooldowns = {}
  /\ identifyTimers = 0
  /\ isPaused = FALSE
  /\ currentSimulationMode = "educational"
  /\ manualBondingMode = FALSE
  /\ selectedAtomsForBonding = <<>>
  /\ selectedAtom = firstAtomOrNull(atoms)
  /\ reactionInProgress = FALSE
  /\ bondingTransitions = {}
  /\ timers = {}
  /\ identifyOrigins = <<>>
  /\ brokenMolecule = NoMolecule
  /\ bodiesPlaced = FALSE
  /\ heatIntensity = 5
  /\ removedAtoms = <<>>
  /\ ticks = 0
  /\ last = NoHistory("init")

\* a frame that finds every pair it measures closer than bondThreshold = 4.0,
\* with the kinetic term k of the free atoms
animateWithinThresholdM(due, k) ==
  \E d \in {dd \in DistChoices(ReadPairsM(due)) :
               \A p \in DOMAIN dd : dd[p] < 400} :
     animateM(d, k, due)

\* the free atoms are at rest or moving; calculateSystemEnergy has no kinetic
\* term when every atom is a member of a molecule
AnimateWithinThresholdM ==
  \E due \in BOOLEAN :
     \E k \in (IF due THEN KineticChoices(atoms) ELSE {0}) :
        animateWithinThresholdM(due, k)

\* a frame whose scan is due and finds the free atoms moving: the system
\* energy is sufficient for H-H and O-H
ScanWithinThresholdM ==
  animateWithinThresholdM(TRUE, IF HasFreeAtom(atoms) THEN SufficientKinetic ELSE 0)

\* a pending identifyMolecules timer is consumed
IdentifyTimerFiresM ==
  identifyTimers > 0 /\ identifyTimers' = identifyTimers - 1

NextWaterM ==
  \/ AnimateWithinThresholdM
  \/ IdentifyTimerM
  \/ CooldownElapsedM

\* frames keep coming with their scan due every 100 ms and the atoms moving,
\* timers fire, and cooldown windows elapse
SpecWaterM ==
  /\ InitWaterM
  /\ [][NextWaterM]_vars
  /\ WF_vars(ScanWithinThresholdM)
  /\ WF_identifyTimers(IdentifyTimerFiresM)
  /\ WF_vars(CooldownElapsedM)

\* the three atoms are free and unbonded
ThreeFreeAtoms ==
  /\ molecules = <<>>
  /\ bonds = <<>>
  /\ \A i \in DOMAIN atoms : ~atoms[i].isMoleculeMember

\* the molecule list is one molecule of the three atoms, named Water
SingleWater ==
  /\ Len(molecules) = 1
  /\ Len(molecules[1].atoms) = 3
  /\ molecules[1].name = "Water (H₂O)"

\* C35: in the mode-based component with automatic reactions, not paused and
\* with sufficient energy, one free oxygen and two free hydrogens that stay
\* pairwise within the bond threshold eventually are a single molecule of
\* three atoms named "Water (H₂O)", for every order of the atom list
C35_WaterEventually == ThreeFreeAtoms ~> SingleWater

\* ------------------------------------------------------------------------
\* Proton edits on the selected atom (SpecProtonM)

\* updateAtom on this.selectedAtom with its new proton count: the visuals
\* and the mass follow, then identifyMolecules runs at once
updateAtomM(protons, neutrons, op) ==
  \E st \in {identifyMoleculesM(
               [Core EXCEPT !.atoms = withProtons(@, selectedAtom, protons, neutrons)])} :
     /\ selectedAtom # -1
     /\ atoms' = st.atoms
     /\ bonds' = st.bonds
     /\ molecules' = st.molecules
     /\ discoveredMolecules' = st.discoveredMolecules
     /\ last' = NoHistory(op)
     /\ UNCHANGED <<nextId, transientHeatEnergy, bondingCooldowns, identifyTimers,
                    uiVarsM, simVars, ticks>>

\* addProton: selectedAtom.protons++ and updateAtom
addProton ==
  /\ selectedAtom # -1
  /\ AtomOf(atoms, selectedAtom).protons < MaxEditedProtons
  /\ updateAtomM(AtomOf(atoms, selectedAtom).protons + 1,
                 AtomOf(atoms, selectedAtom).neutrons, "addProton")

\* removeProton: selectedAtom.protons-- while it is above 1, and updateAtom
removeProton ==
  /\ selectedAtom # -1
  /\ AtomOf(atoms, selectedAtom).protons > 1
  /\ updateAtomM(AtomOf(atoms, selectedAtom).protons - 1,
                 AtomOf(atoms, selectedAtom).neutrons, "removeProton")

\* addNeutron: selectedAtom.neutrons++ and updateAtom
addNeutron ==
  /\ selectedAtom # -1
  /\ AtomOf(atoms, selectedAtom).neutrons < MaxNeutrons
  /\ updateAtomM(AtomOf(atoms, selectedAtom).protons,
                 AtomOf(atoms, selectedAtom).neutrons + 1, "addNeutron")

\* removeNeutron: selectedAtom.neutrons-- while it is above 0, and updateAtom
removeNeutron ==
  /\ selectedAtom # -1
  /\ AtomOf(atoms, selectedAtom).neutrons > 0
  /\ updateAtomM(AtomOf(atoms, selectedAtom).protons,
                 AtomOf(atoms, selectedAtom).neutrons - 1, "removeNeutron")

\* the mode-based component on its two hydrogen atoms, the first selected:
\* frames, timers, the selection and the proton and neutron controls
NextProtonM ==
  \/ AnimateM
  \/ IdentifyTimerM
  \/ CooldownElapsedM
  \/ \E id \in AtomIds : selectAtom(id)
  \/ selectMolecule
  \/ addProton
  \/ removeProton
  \/ addNeutron
  \/ removeNeutron

SpecProtonM == InitM /\ [][NextProtonM]_vars

\* the name identifyMoleculeType gives the members of molecule m as they are
NameOfMembers(m) ==
  identifyMoleculeTypeM(ComponentAtoms(atoms, m.atoms)).name

\* C36: in the mode-based component every molecule of the list carries the
\* name of the present composition of its member atoms; after addProton or
\* removeProton no molecule keeps the name of the atom's previous element
C36_NameMatchesComposition ==
  \A i \in DOMAIN molecules : molecules[i].name = NameOfMembers(molecules[i])

\* ------------------------------------------------------------------------
\* The decay of the heat over the frames (SpecDecayM)

\* a frame that finds the atoms at rest and every pair it measures at
\* bondThreshold = 4.0 or further
animateApartM(due) ==
  \E d \in {dd \in DistChoices(ReadPairsM(due)) :
               \A p \in DOMAIN dd : dd[p] >= 400} :
     animateM(d, 0, due)

AnimateApartM == \E due \in BOOLEAN : animateApartM(due)

\* the two hydrogen atoms kept apart: frames until the heat is gone, the
\* amounts of the energy panel and the three modes while no frame has decayed
\* the heat since it was last set, and pause
NextDecayM ==
  \/ AnimateApartM
  \/ \E mode \in SimulationModes : ticks = 0 /\ onModeChanged(mode)
  \/ \E amount \in EnergyAmounts :
        /\ ticks = 0
        /\ transientHeatEnergy + amount <= Hundredths(MaxHeat)
        /\ transientHeatEnergy + amount >= -Hundredths(MaxDebt)
        /\ addSystemEnergy(amount)
  \/ togglePause

\* requestAnimationFrame calls animate again after every frame
SpecDecayM == InitM /\ [][NextDecayM]_vars /\ WF_vars(AnimateApartM)

\* a step that is not a click on the energy panel
NoEnergyAdded == last'.op # "addSystemEnergy"

\* C37: if from some point on no energy is added and the simulation is not
\* paused, transientHeatEnergy becomes exactly 0 after finitely many frames
\* and stays 0 from then on
C37_HeatDecaysToZero ==
  (<>[][NoEnergyAdded]_vars /\ <>[](~isPaused))
    => <>[](transientHeatEnergy = 0)

\* the same for behaviours whose heat is never negative
HeatDecaysToZeroFromAbove ==
  ([](transientHeatEnergy >= 0) /\ <>[][NoEnergyAdded]_vars /\ <>[](~isPaused))
    => <>[](transientHeatEnergy = 0)

\* ------------------------------------------------------------------------
\* The bonds calculateOptimalBondingStructure selects (SpecBondingStructure)

\* calculateOptimalBondingStructure(atoms); the history keeps the bonds of
\* the structure it returned
CalculateOptimalBondingStructureCalled ==
  /\ last.op = "init"
  /\ last' = [op |-> "calculateOptimalBondingStructure",
              returned |-> calculateOptimalBondingStructure(atoms).bonds]
  /\ UNCHANGED <<coreVars, transientHeatEnergy, bondingCooldowns, identifyTimers,
                 uiVarsM, simVars, ticks>>

NextBondingStructure == CalculateOptimalBondingStructureCalled

SpecBondingStructure == InitCentralAtom /\ [][NextBondingStructure]_vars

RECURSIVE OrderSum(_, _)
\* the sum of the bond orders of the bonds of the list that touch the atom
OrderSum(bondList, id) ==
  IF bondList = <<>> THEN 0
  ELSE (IF Head(bondList).atomA.id = id \/ Head(bondList).atomB.id = id
        THEN Head(bondList).bondOrder ELSE 0)
       + OrderSum(Tail(bondList), id)

\* C38: in the structure calculateOptimalBondingStructure returns, the bond
\* orders of the selected bonds that touch an atom add up to at most the
\* max-bonds of the atom's element, for every atom
C38_OrderSumWithinMaxBonds ==
  last.op = "calculateOptimalBondingStructure"
  => \A i \in DOMAIN atoms :
        HasElement(atoms[i].protons)
        => OrderSum(last.returned, atoms[i].id)
             <= CHEMICAL_ELEMENTS[atoms[i].protons].maxBonds

\* the same for the number of selected bonds that touch the atom
BondCountWithinMaxBonds ==
  last.op = "calculateOptimalBondingStructure"
  => \A i \in DOMAIN atoms :
        HasElement(atoms[i].protons)
        => Cardinality({k \in DOMAIN last.returned :
                          last.returned[k].atomA.id = atoms[i].id
                          \/ last.returned[k].atomB.id = atoms[i].id})
             <= CHEMICAL_ELEMENTS[atoms[i].protons].maxBonds

====
